---- MODULE Spec2Model ----
(***************************************************************************)
(* A state-machine model of hdCycles' mesh primitive (HdCyclesMesh):       *)
(* construction, Sync under the scene lock, and the destructor, together   *)
(* with the renderer-side objects they create, register and destroy.       *)
(*                                                                         *)
(* Source: src/unnamed/part_000 (mesh.cpp followed by utils.cpp).          *)
(* The source is modelled as the preprocessor sees it with no macro        *)
(* defined: nothing in src/ defines USE_USD_CYCLES_SCHEMA, so the block of *)
(* lines 751-856 is not part of Sync here.                                 *)
(*                                                                         *)
(* Abstractions of values (not of control flow):                           *)
(*   - a GfMatrix4d is an integer (a translation along one axis), the      *)
(*     matrix product is the sum and the identity is 0; a ccl::Transform   *)
(*     is the one-element tuple produced by mat4d_to_transform;            *)
(*   - a pointer to a heap object is the identity of the object; a        *)
(*     deleted object leaves its slot with alive = FALSE, so a reference   *)
(*     kept to it shows as dangling, and a new object never takes the      *)
(*     identity of one the same call has deleted;                          *)
(*   - a ray-visibility bitmask is the set of ray types it enables.        *)
(***************************************************************************)
EXTENDS Integers, Sequences, FiniteSets, TLC

(***************************************************************************)
(* Bounds of the model.                                                    *)
(***************************************************************************)
NumPrims == 2
MaxInstances == 2
MaxShaders == 3
MaxIdx == 3

Prims == 1 .. NumPrims

\* instance objects of primitive p are allocated from a pool of its own
PoolSize == 2 * MaxInstances
InstancePool(p) == (NumPrims + (p - 1) * PoolSize + 1) .. (NumPrims + p * PoolSize)
ObjIds == 1 .. (NumPrims + NumPrims * PoolSize)

(***************************************************************************)
(* Hydra dirty bits (HdChangeTracker), as the set of bits that are set.    *)
(***************************************************************************)
Clean == {}

AllBits ==
    { "DirtyPrimID", "DirtyExtent", "DirtyDisplayStyle", "DirtyPoints",
      "DirtyPrimvar", "DirtyMaterialId", "DirtyTopology", "DirtyTransform",
      "DirtyVisibility", "DirtyNormals", "DirtyDoubleSided",
      "DirtySubdivTags", "DirtyInstancer" }

\* an initial mask that does not ask for the topology
InitialMaskWithoutTopology ==
    Clean \cup { "DirtyPoints", "DirtyTransform", "DirtyPrimvar",
                 "DirtyVisibility", "DirtyMaterialId", "DirtyPrimID",
                 "DirtyDoubleSided" }

\* lines 147-156
GetInitialDirtyBitsMask ==
    Clean \cup { "DirtyPoints", "DirtyTransform", "DirtyPrimvar",
                 "DirtyTopology", "DirtyVisibility", "DirtyMaterialId",
                 "DirtySubdivTags", "DirtyPrimID", "DirtyDisplayStyle",
                 "DirtyDoubleSided" }

\* HdChangeTracker::IsPrimvarDirty: points and normals have bits of their own
IsPrimvarDirty(bits, name) ==
    IF name = "points" THEN "DirtyPoints" \in bits
    ELSE IF name = "normals" THEN "DirtyNormals" \in bits
    ELSE "DirtyPrimvar" \in bits

IsTopologyDirty(bits) == "DirtyTopology" \in bits
IsSubdivTagsDirty(bits) == "DirtySubdivTags" \in bits
IsDisplayStyleDirty(bits) == "DirtyDisplayStyle" \in bits

(***************************************************************************)
(* Values.                                                                 *)
(***************************************************************************)
PATH_RAY_ALL_VISIBILITY ==
    { "camera", "diffuse", "glossy", "scatter", "shadow", "transmission" }

GfIdentity == 0
GfMul(a, b) == a + b

transform_identity == << 0 >>
mat4d_to_transform(m) == << m >>

\* HdTimeSampleArray::Resample over a sequence of [t, v] samples
RECURSIVE ResampleFrom(_, _, _)
ResampleFrom(xs, u, i) ==
    IF i >= Len(xs) THEN xs[Len(xs)].v
    ELSE IF u <= xs[i + 1].t
         THEN (xs[i].v * (xs[i + 1].t - u) + xs[i + 1].v * (u - xs[i].t))
              \div (xs[i + 1].t - xs[i].t)
         ELSE ResampleFrom(xs, u, i + 1)

Resample(xs, u) ==
    IF Len(xs) = 0 THEN GfIdentity
    ELSE IF Len(xs) = 1 \/ u <= xs[1].t THEN xs[1].v
    ELSE IF u >= xs[Len(xs)].t THEN xs[Len(xs)].v
    ELSE ResampleFrom(xs, u, 1)

RECURSIVE SeqSum(_)
SeqSum(s) == IF s = << >> THEN 0 ELSE Head(s) + SeqSum(Tail(s))

RECURSIVE Flatten(_)
Flatten(ss) == IF ss = << >> THEN << >> ELSE Head(ss) \o Flatten(Tail(ss))

SeqMin(s) == CHOOSE x \in { s[i] : i \in DOMAIN s } : \A i \in DOMAIN s : x <= s[i]
SeqMax(s) == CHOOSE x \in { s[i] : i \in DOMAIN s } : \A i \in DOMAIN s : x >= s[i]

Max(a, b) == IF a >= b THEN a ELSE b

(***************************************************************************)
(* Topology snapshot (HdMeshTopology) and the refiner built from it.       *)
(* HdCyclesMeshRefiner lives in meshRefiner.h/.cpp, which is not part of   *)
(* src/: its results are modelled as the specification describes them      *)
(* (pass-through fan triangulation, no subdivision).                       *)
(***************************************************************************)
EmptyTopology ==
    [ counts |-> << >>, indices |-> << >>, subsets |-> << >>,
      orientation |-> "rightHanded" ]

NullRefiner == [ valid |-> FALSE, topology |-> EmptyTopology, level |-> 0 ]

\* HdCyclesMeshRefiner::Create(m_topology, 2, id)
CreateRefiner(topology, level) ==
    [ valid |-> TRUE, topology |-> topology, level |-> level ]

GetNumFaces(topology) == Len(topology.counts)

RECURSIVE CornerStart(_, _)
CornerStart(counts, f) ==
    IF f = 0 THEN 0 ELSE counts[f] + CornerStart(counts, f - 1)

FaceTriangles(topology, f) ==
    LET k == topology.counts[f]
        c == CornerStart(topology.counts, f - 1)
        ind == topology.indices
    IN  [ j \in 1 .. Max(k - 2, 0) |->
            IF topology.orientation = "rightHanded"
            THEN << ind[c + 1], ind[c + j + 1], ind[c + j + 2] >>
            ELSE << ind[c + 1], ind[c + j + 2], ind[c + j + 1] >> ]

RefinedCounts(refiner) == refiner.topology.counts

RefinedIndices(refiner) ==
    Flatten([ f \in 1 .. Len(refiner.topology.counts) |->
                FaceTriangles(refiner.topology, f) ])

RefineUniformData(refiner, data) ==
    LET counts == refiner.topology.counts
        ok == Len(data) = Len(counts)
    IN  [ ok |-> ok,
          data |-> IF ok
                   THEN Flatten([ f \in 1 .. Len(counts) |->
                                    [ j \in 1 .. Max(counts[f] - 2, 0) |-> data[f] ] ])
                   ELSE << >> ]

RefineVertexData(refiner, points) == points

(***************************************************************************)
(* Materials of the render index: the shader a material id resolves to,    *)
(* "" when the id names no material or the material has no shader.         *)
(***************************************************************************)
GetCyclesShader(materialId) ==
    CASE materialId = "matA" -> "shaderA"
      [] materialId = "matB" -> "shaderB"
      [] OTHER -> ""

\* std::map<SdfPath, int> m_materialMap, as the set of its [k, v] entries
MapHas(map, key) == \E e \in map : e.k = key
MapAt(map, key) == (CHOOSE e \in map : e.k = key).v
\* insert_or_assign: an existing key takes the new value
MapAssign(map, key, value) ==
    { e \in map : e.k # key } \cup { [ k |-> key, v |-> value ] }

\* emplace: an existing key keeps its value
MapEmplace(map, key, value) ==
    IF MapHas(map, key) THEN map ELSE map \cup { [ k |-> key, v |-> value ] }

(***************************************************************************)
(* Renderer objects.                                                       *)
(***************************************************************************)
\* ccl::Mesh as left by _CreateCyclesMesh and the constructor
CCL_DEFAULT_MOTION_STEPS == 3
HD_CYCLES_MOTION_STEPS == 3

NoBounds == [ valid |-> FALSE, min |-> 0, max |-> 0 ]

_CreateCyclesMesh(useMotionBlur, useDeformMotionBlur) ==
    [ alive |-> TRUE, verts |-> << >>, triangles |-> << >>, attrs |-> {},
      used_shaders |-> << >>,
      motion_steps |-> CCL_DEFAULT_MOTION_STEPS,
      use_motion_blur |-> (useMotionBlur /\ useDeformMotionBlur),
      bounds |-> NoBounds ]

\* a clear that drops the geometry and keeps the attributes
MeshClearGeometry(m) ==
    [ m EXCEPT !.verts = << >>, !.triangles = << >>, !.used_shaders = << >> ]

\* ccl::Mesh::clear(): geometry, attributes and the used shaders are dropped
MeshClear(m) ==
    [ m EXCEPT !.verts = << >>, !.triangles = << >>, !.attrs = {},
               !.used_shaders = << >> ]

_CreateCyclesObject ==
    [ alive |-> TRUE, tfm |-> transform_identity, pass_id |-> -1,
      visibility |-> PATH_RAY_ALL_VISIBILITY, geometry |-> 0,
      motion |-> << >>, color |-> 0 ]

\* the slot of an object that was never allocated or has been deleted
FreeObject == [ _CreateCyclesObject EXCEPT !.alive = FALSE ]

(***************************************************************************)
(* HdCyclesMesh: the members the constructor leaves behind.  m_refineLevel *)
(* has no initialiser; -1 stands for its indeterminate value, which Sync   *)
(* compares only after the same dirty bit has already set newMesh.         *)
(***************************************************************************)
NewMesh(useMotionBlur, instanced) ==
    [ instanced |-> instanced,
      m_hasVertexColors |-> FALSE,
      m_visibilityFlags |-> PATH_RAY_ALL_VISIBILITY,
      visible |-> TRUE,
      m_useMotionBlur |-> useMotionBlur,
      m_useDeformMotionBlur |-> useMotionBlur,
      m_topology |-> EmptyTopology,
      m_refiner |-> NullRefiner,
      m_points |-> << >>,
      m_numMeshVerts |-> 0,
      m_adjacencyValid |-> FALSE,
      m_normalsValid |-> FALSE,
      m_doubleSided |-> FALSE,
      m_refineLevel |-> -1,
      m_usedShaders |-> << >>,
      m_materialMap |-> {},
      m_cachedMaterialId |-> "",
      m_transformSamples |-> << >>,
      m_cyclesInstances |-> << >> ]

\* the renderer mesh after the constructor (lines 99-116)
NewCyclesMesh(useMotionBlur) ==
    [ _CreateCyclesMesh(useMotionBlur, FALSE) EXCEPT
        !.motion_steps = IF useMotionBlur THEN HD_CYCLES_MOTION_STEPS ELSE @,
        !.use_motion_blur = useMotionBlur ]

\* nothing in the source assigns m_pointSamples (the sampling call of line
\* 696 is commented out): it keeps the empty sample array it is built with
m_pointSamples == << >>

(***************************************************************************)
(* Sync, lines 643-748: pull scene data.  A context cx carries the         *)
(* primitive's members (self), its renderer mesh and prototype object, the *)
(* object heap and the renderer's object list (heap, scene), the locals    *)
(* mesh_updated (upd) and newMesh, the instancer's answer when it was      *)
(* asked (resolved, instanceTransforms), the notifications sent so far     *)
(* (ntf) and whether the call has dereferenced a null refiner (crashed) or *)
(* entered the loop of _AddNormals that does not end (hung).               *)
(***************************************************************************)
NoExtComputation == [ has |-> FALSE, found |-> FALSE, val |-> << >> ]

PullComputedPoints(cx, bits, ext) ==
    IF ext.has /\ IsPrimvarDirty(bits, "points")
    THEN IF ext.found
         THEN [ cx EXCEPT !.upd = TRUE,
                          !.self.m_points = ext.val,
                          !.self.m_numMeshVerts = Len(ext.val),
                          !.self.m_normalsValid = FALSE,
                          !.newMesh = TRUE ]
         ELSE [ cx EXCEPT !.upd = TRUE ]
    ELSE cx

\* the topology snapshot replaced while the refiner of the old one is kept
PullTopologyOnly(cx, bits, topology) ==
    IF IsTopologyDirty(bits) \/ IsSubdivTagsDirty(bits) \/ IsDisplayStyleDirty(bits)
    THEN [ cx EXCEPT !.self.m_topology = topology,
                     !.self.m_adjacencyValid = FALSE,
                     !.self.m_normalsValid = FALSE,
                     !.newMesh = TRUE ]
    ELSE cx

\* lines 702-714
PullTopology(cx, bits, topology) ==
    IF IsTopologyDirty(bits) \/ IsSubdivTagsDirty(bits) \/ IsDisplayStyleDirty(bits)
    THEN [ cx EXCEPT !.self.m_topology = topology,
                     !.self.m_refiner = CreateRefiner(topology, 2),
                     !.self.m_adjacencyValid = FALSE,
                     !.self.m_normalsValid = FALSE,
                     !.newMesh = TRUE ]
    ELSE cx

\* a double-sided change that asks for a mesh rebuild
PullDoubleSidedRebuild(cx, bits, doubleSided) ==
    IF "DirtyDoubleSided" \in bits
    THEN [ cx EXCEPT !.upd = TRUE, !.self.m_doubleSided = doubleSided,
                     !.newMesh = TRUE ]
    ELSE cx

\* lines 730-733
PullDoubleSided(cx, bits, doubleSided) ==
    IF "DirtyDoubleSided" \in bits
    THEN [ cx EXCEPT !.upd = TRUE, !.self.m_doubleSided = doubleSided ]
    ELSE cx

PullDisplayStyle(cx, bits, refineLevel) ==
    IF "DirtyDisplayStyle" \in bits
    THEN IF cx.self.m_refineLevel # refineLevel
         THEN [ cx EXCEPT !.upd = TRUE,
                          !.self.m_refineLevel = refineLevel,
                          !.newMesh = TRUE ]
         ELSE [ cx EXCEPT !.upd = TRUE ]
    ELSE cx

PullSceneData(cx, bits, ext, topology, doubleSided, refineLevel) ==
    PullDisplayStyle(
        PullDoubleSided(
            PullTopology(PullComputedPoints(cx, bits, ext), bits, topology),
            bits, doubleSided),
        bits, refineLevel)

(***************************************************************************)
(* Sync, lines 861-963: create the renderer mesh.                          *)
(***************************************************************************)
\* lines 866-889: one geometric subset
ApplySubset(cx, fm, subset) ==
    LET shader == GetCyclesShader(subset.materialId)
        resolved == subset.materialId # "" /\ shader # ""
        isNew == resolved /\ ~MapHas(cx.self.m_materialMap, subset.materialId)
        shaders == IF isNew THEN Append(cx.self.m_usedShaders, shader)
                   ELSE cx.self.m_usedShaders
        index == IF ~resolved THEN 0
                 ELSE IF isNew THEN Len(shaders)
                 ELSE MapAt(cx.self.m_materialMap, subset.materialId)
        cx1 == IF resolved
               THEN [ cx EXCEPT
                        !.self.m_usedShaders = shaders,
                        !.self.m_materialMap =
                            MapEmplace(@, subset.materialId, Len(shaders)),
                        !.ntf.shaderTag = @ \/ isNew,
                        !.mesh.used_shaders = shaders ]
               ELSE cx
    IN  [ cx |-> cx1,
          fm |-> [ i \in DOMAIN fm |->
                     IF (i - 1) \in subset.indices THEN Max(index - 1, 0)
                     ELSE fm[i] ] ]

RECURSIVE ApplySubsets(_, _, _)
ApplySubsets(cx, fm, subsets) ==
    IF subsets = << >> THEN [ cx |-> cx, fm |-> fm ]
    ELSE LET r == ApplySubset(cx, fm, Head(subsets))
         IN  ApplySubsets(r.cx, r.fm, Tail(subsets))

\* the triangles added with their second and third corner exchanged
_PopulateFacesSwapped(cx, input_material_ids) ==
    LET refined_indices == RefinedIndices(cx.self.m_refiner)
        refined == RefineUniformData(cx.self.m_refiner, input_material_ids)
        material_ids == IF refined.ok THEN refined.data ELSE << >>
    IN  [ cx EXCEPT !.mesh.triangles =
            [ i \in 1 .. Len(refined_indices) |->
                [ v |-> << refined_indices[i][1], refined_indices[i][3],
                           refined_indices[i][2] >>,
                  shader |-> IF i <= Len(material_ids) THEN material_ids[i] ELSE 0 ] ] ]

\* lines 576-600
_PopulateFaces(cx, input_material_ids) ==
    LET refined_indices == RefinedIndices(cx.self.m_refiner)
        refined == RefineUniformData(cx.self.m_refiner, input_material_ids)
        material_ids == IF refined.ok THEN refined.data ELSE << >>
    IN  [ cx EXCEPT !.mesh.triangles =
            [ i \in 1 .. Len(refined_indices) |->
                [ v |-> refined_indices[i],
                  shader |-> IF i <= Len(material_ids) THEN material_ids[i] ELSE 0 ] ] ]

\* lines 520-535
_PopulateVertices(cx, points_value) ==
    [ cx EXCEPT !.mesh.verts = @ \o RefineVertexData(cx.self.m_refiner, points_value) ]

\* lines 537-574
_PopulateMotion(cx) ==
    IF Len(m_pointSamples) <= 1 THEN cx
    ELSE [ cx EXCEPT !.mesh.use_motion_blur = TRUE,
                     !.mesh.motion_steps = Len(m_pointSamples) + 1,
                     !.mesh.attrs = @ \cup { "motion_P" } ]

\* lines 425-488; the loop of lines 436-443 never advances j
_AddNormals(cx, interpolation) ==
    IF interpolation = "uniform"
    THEN [ cx EXCEPT !.mesh.attrs = @ \cup { "Ng" },
                     !.hung = \E i \in DOMAIN RefinedCounts(cx.self.m_refiner) :
                                 1 < RefinedCounts(cx.self.m_refiner)[i] - 1 ]
    ELSE IF interpolation = "vertex"
    THEN [ cx EXCEPT !.mesh.attrs = @ \cup { "N" } ]
    ELSE IF interpolation = "faceVarying"
    THEN [ cx EXCEPT !.mesh.attrs = @ \cup { "Ng", "N" } ]
    ELSE cx

\* lines 227-268, with the tangent attributes of mikk_compute_tangents
_AddUVSet(cx, name) ==
    [ cx EXCEPT !.mesh.attrs = @ \cup { name, name \o ".tangent",
                                        name \o ".tangent_sign" } ]

\* lines 332-423; pv.vals is the array the primvar holds, here never empty
\* (element 0 of an empty array, lines 407-410, is an out-of-bounds read)
_AddColors(cx, pv) ==
    LET cx1 == [ cx EXCEPT !.mesh.attrs = @ \cup { pv.name } ]
    IN  IF pv.name = "displayColor" /\ pv.interp = "constant"
        THEN [ cx1 EXCEPT !.obj.color = pv.vals[1] ]
        ELSE cx1

\* the ingest of one primvar without the tests of the refined array
IngestPrimvarUnchecked(cx, pv, bits) ==
    IF ~IsPrimvarDirty(bits, pv.name) THEN cx
    ELSE IF pv.name = "normals" \/ pv.role = "normal"
    THEN LET cx1 == _AddNormals(cx, pv.interp)
         IN  IF cx1.hung THEN cx1 ELSE [ cx1 EXCEPT !.upd = TRUE ]
    ELSE IF pv.name = "velocities" THEN cx
    ELSE IF pv.role = "textureCoordinate"
    THEN [ _AddUVSet(cx, pv.name) EXCEPT !.upd = TRUE ]
    ELSE IF pv.name = "displayColor" \/ pv.role = "color"
    THEN [ _AddColors(cx, pv) EXCEPT
             !.self.m_hasVertexColors = @ \/ pv.name = "displayColor",
             !.upd = TRUE ]
    ELSE cx

\* the vertex-color flag set only when the color attribute was written
IngestPrimvarColorsWritten(cx, pv, bits) ==
    IF ~IsPrimvarDirty(bits, pv.name) THEN cx
    ELSE IF pv.name = "normals" \/ pv.role = "normal"
    THEN IF pv.ok
         THEN LET cx1 == _AddNormals(cx, pv.interp)
              IN  IF cx1.hung THEN cx1 ELSE [ cx1 EXCEPT !.upd = TRUE ]
         ELSE cx
    ELSE IF pv.name = "velocities" THEN cx
    ELSE IF pv.role = "textureCoordinate"
    THEN IF pv.ok THEN [ _AddUVSet(cx, pv.name) EXCEPT !.upd = TRUE ] ELSE cx
    ELSE IF pv.name = "displayColor" \/ pv.role = "color"
    THEN IF pv.ok
         THEN [ _AddColors(cx, pv) EXCEPT
                  !.self.m_hasVertexColors = @ \/ pv.name = "displayColor",
                  !.upd = TRUE ]
         ELSE [ cx EXCEPT !.upd = TRUE ]
    ELSE cx

\* lines 899-957: one primvar of the ingest loop
IngestPrimvar(cx, pv, bits) ==
    IF ~IsPrimvarDirty(bits, pv.name) THEN cx
    ELSE IF pv.name = "normals" \/ pv.role = "normal"
    THEN IF pv.ok
         THEN LET cx1 == _AddNormals(cx, pv.interp)
              IN  IF cx1.hung THEN cx1 ELSE [ cx1 EXCEPT !.upd = TRUE ]
         ELSE cx
    ELSE IF pv.name = "velocities" THEN cx
    ELSE IF pv.role = "textureCoordinate"
    THEN IF pv.ok THEN [ _AddUVSet(cx, pv.name) EXCEPT !.upd = TRUE ] ELSE cx
    ELSE IF pv.name = "displayColor" \/ pv.role = "color"
    THEN LET cx1 == IF pv.ok THEN _AddColors(cx, pv) ELSE cx
         IN  [ cx1 EXCEPT !.self.m_hasVertexColors = @ \/ pv.name = "displayColor",
                          !.upd = TRUE ]
    ELSE cx

RECURSIVE IngestPrimvars(_, _, _, _)
IngestPrimvars(cx, pvs, k, bits) ==
    IF k > Len(pvs) \/ cx.hung THEN cx
    ELSE IngestPrimvars(IngestPrimvar(cx, pvs[k], bits), pvs, k + 1, bits)

\* the std::map of lines 716-728 iterates in the order of HdInterpolation
InterpolationOrder == << "constant", "uniform", "vertex", "faceVarying" >>

DescsOf(descs, interpolation) ==
    LET Is(pv) == pv.interp = interpolation IN SelectSeq(descs, Is)

primvarDescsPerInterpolation(descs) ==
    Flatten([ i \in DOMAIN InterpolationOrder |->
                DescsOf(descs, InterpolationOrder[i]) ])

CreateCyclesMesh(cx, bits, descs, points_value) ==
    IF ~cx.newMesh THEN cx
    ELSE
    LET cleared == [ cx EXCEPT !.mesh = MeshClear(@) ]
        faceMaterials == [ i \in 1 .. GetNumFaces(cx.self.m_topology) |-> 0 ]
        sub == ApplySubsets(cleared, faceMaterials, cx.self.m_topology.subsets)
    IN  IF ~cx.self.m_refiner.valid THEN [ sub.cx EXCEPT !.crashed = TRUE ]
        ELSE
        LET faces == _PopulateFaces(sub.cx, sub.fm)
            verts == _PopulateVertices(faces, points_value)
            motion == IF cx.self.m_useMotionBlur /\ cx.self.m_useDeformMotionBlur
                      THEN _PopulateMotion(verts) ELSE verts
            pvs == IngestPrimvars(motion, primvarDescsPerInterpolation(descs), 1, bits)
        IN  IF pvs.hung THEN pvs
            ELSE IF Len(pvs.self.m_usedShaders) > 0
            THEN [ pvs EXCEPT !.mesh.used_shaders = pvs.self.m_usedShaders ]
            ELSE pvs

(***************************************************************************)
(* Sync, lines 965-1022: transform, prim id, material id, visibility.      *)
(***************************************************************************)
\* the base transform taken from the first sample whatever the sample times
SetTransformFromFirstSample(cx, xf, use_motion) ==
    IF Len(xf) = 0 THEN [ cx EXCEPT !.obj.tfm = transform_identity ]
    ELSE [ cx EXCEPT !.obj.tfm = mat4d_to_transform(xf[1].v),
                     !.obj.motion = IF use_motion THEN << >> ELSE @ ]

\* a motion array of one entry per sample whatever the motion-step count
SetTransformPerSample(cx, xf, use_motion) ==
    LET centers == { i \in DOMAIN xf : xf[i].t = 0 }
        base == IF Len(xf) > 1 /\ centers # {}
                THEN mat4d_to_transform(xf[CHOOSE i \in centers : TRUE].v)
                ELSE mat4d_to_transform(xf[1].v)
    IN  IF Len(xf) = 0 THEN [ cx EXCEPT !.obj.tfm = transform_identity ]
        ELSE IF ~use_motion THEN [ cx EXCEPT !.obj.tfm = base ]
        ELSE [ cx EXCEPT !.obj.tfm = base,
                         !.obj.motion = [ i \in DOMAIN xf |->
                                            mat4d_to_transform(xf[i].v) ] ]

\* lines 1301-1374; the object and its geometry are those of the context
HdCyclesSetTransform(cx, xf, use_motion) ==
    LET sampleCount == Len(xf)
        centers == { i \in 1 .. sampleCount : xf[i].t = 0 }
        center == CHOOSE i \in centers : \A j \in centers : j <= i
        base == IF sampleCount > 1 /\ centers # {}
                THEN mat4d_to_transform(xf[center].v)
                ELSE mat4d_to_transform(xf[1].v)
    IN  IF sampleCount = 0 THEN [ cx EXCEPT !.obj.tfm = transform_identity ]
        ELSE IF ~use_motion THEN [ cx EXCEPT !.obj.tfm = base ]
        ELSE IF cx.mesh.use_motion_blur /\ cx.mesh.motion_steps # sampleCount
        THEN [ cx EXCEPT !.obj.tfm = base,
                         !.obj.motion = [ i \in 1 .. cx.mesh.motion_steps |-> base ] ]
        ELSE IF cx.mesh.motion_steps = sampleCount
        THEN [ cx EXCEPT
                 !.mesh.use_motion_blur = TRUE,
                 !.obj.tfm = IF centers # {} THEN mat4d_to_transform(xf[center].v)
                             ELSE base,
                 !.obj.motion = [ i \in 1 .. sampleCount |->
                                    mat4d_to_transform(xf[i].v) ] ]
        ELSE [ cx EXCEPT !.obj.tfm = base, !.obj.motion = << >> ]

\* lines 965-976
SyncTransform(cx, bits, xf) ==
    IF "DirtyTransform" \in bits
    THEN [ HdCyclesSetTransform(cx, xf, cx.self.m_useMotionBlur) EXCEPT
             !.self.m_transformSamples = xf,
             !.upd = TRUE ]
    ELSE cx

\* a fallback that is the default surface whatever the vertex-color flag
defaultShader(cx) == "default_surface"

\* lines 978-982
fallbackShader(cx) ==
    IF cx.self.m_hasVertexColors THEN "default_vcol_surface" ELSE "default_surface"

\* the prim id written without the offset of 1
SyncPrimIdUnshifted(cx, bits, primId) ==
    IF "DirtyPrimID" \in bits THEN [ cx EXCEPT !.obj.pass_id = primId ] ELSE cx

\* lines 984-987
SyncPrimId(cx, bits, primId) ==
    IF "DirtyPrimID" \in bits THEN [ cx EXCEPT !.obj.pass_id = primId + 1 ] ELSE cx

\* a shader pushed only when the bound material is not the cached one
SyncMaterialIdOnChange(cx, bits, materialId) ==
    IF "DirtyMaterialId" \notin bits THEN cx
    ELSE
    LET cx1 == [ cx EXCEPT !.self.m_cachedMaterialId = materialId ]
        shader == GetCyclesShader(materialId)
        resolved == materialId # "" /\ shader # ""
        pushed == Append(cx.self.m_usedShaders,
                         IF resolved THEN shader ELSE fallbackShader(cx))
    IN  IF ~cx.self.m_refiner.valid THEN [ cx1 EXCEPT !.crashed = TRUE ]
        ELSE IF Len(RefinedCounts(cx.self.m_refiner)) > 0
                  /\ (materialId # cx.self.m_cachedMaterialId
                        \/ cx.self.m_usedShaders = << >>)
        THEN [ cx1 EXCEPT !.self.m_usedShaders = pushed,
                          !.ntf.shaderTag = @ \/ resolved,
                          !.mesh.used_shaders = pushed ]
        ELSE cx1

\* lines 989-1017
SyncMaterialId(cx, bits, materialId) ==
    IF "DirtyMaterialId" \notin bits THEN cx
    ELSE
    LET cx1 == [ cx EXCEPT !.self.m_cachedMaterialId = materialId ]
        shader == GetCyclesShader(materialId)
        resolved == materialId # "" /\ shader # ""
        pushed == Append(cx.self.m_usedShaders,
                         IF resolved THEN shader ELSE fallbackShader(cx))
    IN  IF ~cx.self.m_refiner.valid THEN [ cx1 EXCEPT !.crashed = TRUE ]
        ELSE IF Len(RefinedCounts(cx.self.m_refiner)) > 0
        THEN [ cx1 EXCEPT !.self.m_usedShaders = pushed,
                          !.ntf.shaderTag = @ \/ resolved,
                          !.mesh.used_shaders = pushed ]
        ELSE cx1

\* lines 1019-1022
SyncVisibility(cx, bits, visible) ==
    IF "DirtyVisibility" \in bits
    THEN [ cx EXCEPT !.upd = TRUE, !.self.visible = visible ]
    ELSE cx

SyncObjectState(cx, bits, xf, primId, materialId, visible) ==
    LET cx3 == SyncMaterialId(SyncPrimId(SyncTransform(cx, bits, xf), bits, primId),
                              bits, materialId)
    IN  IF cx3.crashed THEN cx3 ELSE SyncVisibility(cx3, bits, visible)

(***************************************************************************)
(* Sync, lines 1027-1105: point instances.                                 *)
(***************************************************************************)
Range(s) == { s[i] : i \in DOMAIN s }

RECURSIVE TakeSmallest(_, _)
TakeSmallest(S, n) ==
    IF n = 0 THEN << >>
    ELSE LET m == CHOOSE x \in S : \A y \in S : x <= y
         IN  << m >> \o TakeSmallest(S \ { m }, n - 1)

\* lines 1033-1035
newNumInstances(instanceTransforms) ==
    IF Len(instanceTransforms) > 0 THEN Len(instanceTransforms[1].vals) ELSE 0

\* lines 1051-1072: the combined transform of instance i at time sample j
combinedTransform(m_transformSamples, instanceTransforms, i, j) ==
    IF Len(m_transformSamples) = 0
       \/ (Len(m_transformSamples) = 1 /\ m_transformSamples[1].v = GfIdentity)
    THEN instanceTransforms[j].vals[i]
    ELSE GfMul(Resample(m_transformSamples, instanceTransforms[j].t),
               instanceTransforms[j].vals[i])

\* lines 1074-1080: the renderer object of instance i
InstanceObject(p, m_transformSamples, instanceTransforms, i) ==
    [ _CreateCyclesObject EXCEPT
        !.tfm = mat4d_to_transform(
                    combinedTransform(m_transformSamples, instanceTransforms, i, 1)),
        !.geometry = p ]

\* a prototype that keeps its visibility flags
KeepPrototype(flags) == flags

\* lines 1100-1102
HidePrototype(flags) == {}

\* the list cleared without RemoveObject and delete
ForgetInstances(cx) == [ cx EXCEPT !.self.m_cyclesInstances = << >> ]

\* lines 1036-1046: remove every instance from the renderer and delete it
ClearInstances(cx) ==
    LET old == Range(cx.self.m_cyclesInstances)
    IN  [ cx EXCEPT !.heap = [ o \in DOMAIN @ |-> IF o \in old THEN FreeObject ELSE @[o] ],
                    !.scene = @ \ old,
                    !.self.m_cyclesInstances = << >> ]

\* lines 1048-1103: create, fill and register one object per instance
CreateInstances(p, cx, instanceTransforms, old) ==
    LET n == newNumInstances(instanceTransforms)
        ids == TakeSmallest(InstancePool(p) \ old, n)
    IN  IF n = 0 THEN cx
        ELSE [ cx EXCEPT
                 !.heap = [ o \in DOMAIN @ |->
                              IF o \in Range(ids)
                              THEN InstanceObject(p, cx.self.m_transformSamples,
                                       instanceTransforms,
                                       CHOOSE i \in DOMAIN ids : ids[i] = o)
                              ELSE @[o] ],
                 !.scene = @ \cup Range(ids),
                 !.self.m_cyclesInstances = ids,
                 !.self.m_visibilityFlags = HidePrototype(@) ]

\* lines 1027-1105; GetInstancer resolves when the primitive has an instancer id
SyncInstancesState(p, cx, bits, instanceTransforms) ==
    IF ~(cx.newMesh \/ "DirtyInstancer" \in bits) THEN cx
    ELSE IF ~cx.self.instanced THEN [ cx EXCEPT !.upd = TRUE ]
    ELSE CreateInstances(p,
             ClearInstances([ cx EXCEPT !.upd = TRUE,
                                        !.resolved = TRUE,
                                        !.instanceTransforms = instanceTransforms ]),
             instanceTransforms, Range(cx.self.m_cyclesInstances))

(***************************************************************************)
(* Sync, lines 1110-1122: finish the mesh, push visibility, notify.        *)
(***************************************************************************)
\* lines 621-632 with _PopulateGenerated (602-619)
_FinishMesh(cx, needGenerated) ==
    LET verts == cx.mesh.verts
        bounds == IF verts = << >> THEN NoBounds
                  ELSE [ valid |-> TRUE, min |-> SeqMin(verts), max |-> SeqMax(verts) ]
    IN  [ cx EXCEPT !.mesh.bounds = bounds,
                    !.mesh.attrs = IF needGenerated THEN @ \cup { "generated" } ELSE @ ]

\* lines 1115-1121 without the test of line 1114
TagUpdateAlways(cx) ==
    [ cx EXCEPT
        !.obj.visibility = IF cx.self.visible THEN cx.self.m_visibilityFlags ELSE {},
        !.ntf.meshTag = TRUE,
        !.ntf.objectTag = TRUE,
        !.ntf.interrupt = TRUE ]

\* lines 1114-1122
TagUpdate(cx) ==
    IF cx.upd \/ cx.newMesh
    THEN [ cx EXCEPT
             !.obj.visibility = IF cx.self.visible THEN cx.self.m_visibilityFlags
                                ELSE {},
             !.ntf.meshTag = TRUE,
             !.ntf.objectTag = TRUE,
             !.ntf.interrupt = TRUE ]
    ELSE cx

FinishSync(cx, needGenerated) ==
    TagUpdate(IF cx.newMesh THEN _FinishMesh(cx, needGenerated) ELSE cx)

(***************************************************************************)
(* State.                                                                  *)
(*   pc[p]          where primitive p's thread is: "idle" (no call),       *)
(*                  "lock" (in Sync, waiting for the scene mutex), "body"  *)
(*                  (mutex held), "AddNormals" (in the loop of lines       *)
(*                  436-443), "return" (body done, mutex still held), the  *)
(*                  positions of the destructor, "dead" (destroyed) or     *)
(*                  "crashed" (the process died)                           *)
(*   dirty[p]       the dirty bits the change tracker holds for p, which   *)
(*                  Sync receives as *dirtyBits; a new primitive starts    *)
(*                  with GetInitialDirtyBitsMask                           *)
(*   lock           owner of scene->mutex, 0 when free                     *)
(*   loc[p]         locals of p's Sync call, kept until it returns         *)
(*   self[p]        members of the HdCyclesMesh                            *)
(*   mesh[p]        the ccl::Mesh m_cyclesMesh points to                   *)
(*   objs[o]        the heap of ccl::Object; the prototype of p is o = p   *)
(*   sceneObjects   objects registered with the renderer (AddObject)       *)
(*   sceneGeometry  meshes registered with the renderer (AddGeometry)      *)
(*   notif[p]       tag_update / Interrupt calls made by p's current call  *)
(***************************************************************************)
VARIABLES pc, dirty, lock, loc, self, mesh, objs, sceneObjects, sceneGeometry,
          notif, pop, vt, loader

\* the state of the primitives and of the renderer
syncVars == << pc, dirty, lock, loc, self, mesh, objs, sceneObjects,
               sceneGeometry, notif >>

\* the calls of the utilities under way: the attribute populator, the
\* boolean reader of a VtValue and the constructor of the volume loader
utilVars == << pop, vt, loader >>

vars == << pc, dirty, lock, loc, self, mesh, objs, sceneObjects, sceneGeometry,
           notif, pop, vt, loader >>

\* what the scene delegate held for the current call: the prim id, the primvar
\* descriptors, the authored points, the computed points and the time
\* samples of the points, each at its default until the call is given one
NoReads ==
    [ primId |-> 0, descs |-> << >>, points |-> << >>, xf |-> << >>,
      ext |-> NoExtComputation, pointSamples |-> << >>,
      topology |-> EmptyTopology, refineLevel |-> 0 ]

NoLocals ==
    [ mesh_updated |-> FALSE, newMesh |-> FALSE, idx |-> 0,
      resolved |-> FALSE, instanceTransforms |-> << >>, read |-> NoReads ]

\* no call of _PopulateAttribute is under way
NoPopulate ==
    [ pc |-> "idle", interpolation |-> "", value |-> [ type |-> "", vals |-> << >> ],
      counts |-> << >>, orientation |-> "", called |-> "none", ret |-> FALSE,
      data |-> << >>, reads |-> << >>, diag |-> "", numVerts |-> 0 ]

\* no call of _HdCyclesGetVtValue<bool> is under way
NoVtValue ==
    [ pc |-> "idle", a_value |-> [ type |-> "empty", v |-> 0 ], a_default |-> FALSE,
      a_hasChanged |-> "null", a_checkWithDefault |-> FALSE, ret |-> FALSE,
      hasChanged |-> "null" ]

\* no volume loader is being constructed
NoLoader ==
    [ pc |-> "idle", filepath |-> [ kind |-> "missing", grids |-> {} ], grid_name |-> "", file |-> "closed",
      grid |-> "", thrown |-> "", out |-> << >> ]

NoNotif ==
    [ meshTag |-> FALSE, objectTag |-> FALSE, shaderTag |-> FALSE,
      interrupt |-> FALSE ]

\* what the renderer holds for primitive p
Renderer(p) ==
    [ mesh |-> mesh[p],
      object |-> objs[p],
      shaders |-> self[p].m_usedShaders,
      instances |-> [ i \in DOMAIN self[p].m_cyclesInstances |->
                        [ id |-> self[p].m_cyclesInstances[i],
                          obj |-> objs[self[p].m_cyclesInstances[i]] ] ],
      registered |-> sceneObjects \cap ({ p } \cup InstancePool(p)) ]

Running == \A q \in Prims : pc[q] # "crashed"

\* lines 73-122: every primitive constructed, its mesh and prototype object
\* created and registered with the renderer
\* m_adjacencyValid and m_normalsValid are not in the constructor's
\* initialiser list (lines 73-89): caches is the set of values they may hold
InitWithCaches(motionBlur, instanced, caches) ==
    /\ pc = [ p \in Prims |-> "idle" ]
    /\ dirty = [ p \in Prims |-> GetInitialDirtyBitsMask ]
    /\ lock = 0
    /\ loc = [ p \in Prims |-> NoLocals ]
    /\ \E mb \in motionBlur, inst \in instanced, valid \in caches :
         /\ self = [ p \in Prims |->
                      [ NewMesh(mb, inst) EXCEPT !.m_adjacencyValid = valid,
                                                 !.m_normalsValid = valid ] ]
         /\ mesh = [ p \in Prims |-> NewCyclesMesh(mb) ]
    /\ objs = [ o \in ObjIds |->
                  IF o \in Prims THEN [ _CreateCyclesObject EXCEPT !.geometry = o ]
                  ELSE FreeObject ]
    /\ sceneObjects = Prims
    /\ sceneGeometry = Prims
    /\ notif = [ p \in Prims |-> NoNotif ]
    /\ pop = NoPopulate
    /\ vt = NoVtValue
    /\ loader = NoLoader

\* the two flags are written and never read: where no property speaks of
\* them they start cleared
InitWith(motionBlur, instanced) == InitWithCaches(motionBlur, instanced, { FALSE })

Context(p) ==
    [ self |-> self[p], mesh |-> mesh[p], obj |-> objs[p],
      heap |-> objs, scene |-> sceneObjects,
      upd |-> FALSE, newMesh |-> FALSE,
      resolved |-> FALSE, instanceTransforms |-> << >>, read |-> NoReads,
      ntf |-> notif[p], crashed |-> FALSE, hung |-> FALSE ]

\* store a context back and move on
Commit(p, cx) ==
    /\ self' = [ self EXCEPT ![p] = cx.self ]
    /\ mesh' = [ mesh EXCEPT ![p] = cx.mesh ]
    /\ objs' = [ cx.heap EXCEPT ![p] = cx.obj ]
    /\ sceneObjects' = cx.scene
    /\ notif' = [ notif EXCEPT ![p] = cx.ntf ]
    /\ loc' = [ loc EXCEPT ![p] =
                  [ mesh_updated |-> cx.upd, newMesh |-> cx.newMesh, idx |-> 0,
                    resolved |-> cx.resolved,
                    instanceTransforms |-> cx.instanceTransforms,
                    read |-> cx.read ] ]
    /\ pc' = [ pc EXCEPT ![p] = IF cx.crashed THEN "crashed"
                                ELSE IF cx.hung THEN "AddNormals"
                                ELSE "return" ]

When(cond, S, default) == IF cond THEN S ELSE { default }

(***************************************************************************)
(* Sync (lines 634-1125).  D names the values the scene delegate may       *)
(* return; a value is drawn only where the code asks for it, except the   *)
(* time samples of the points, which the delegate holds and the code never *)
(* asks for (the call of line 696 is commented out).                       *)
(***************************************************************************)
\* lines 634-637: Hydra calls Sync with the bits marked dirty since the last
\* call, bits, on top of those the tracker already holds
SyncCall(p, bits) ==
    /\ Running
    /\ pc[p] = "idle"
    /\ "DirtyMaterialId" \in dirty[p] \cup bits
          => Len(self[p].m_usedShaders) < MaxShaders
    /\ pc' = [ pc EXCEPT ![p] = "lock" ]
    /\ dirty' = [ dirty EXCEPT ![p] = @ \cup bits ]
    /\ notif' = [ notif EXCEPT ![p] = NoNotif ]
    /\ UNCHANGED << utilVars, lock, loc, self, mesh, objs, sceneObjects, sceneGeometry >>

\* a Sync that enters its body without waiting for the mutex
SyncEnter(p) ==
    /\ Running
    /\ pc[p] = "lock"
    /\ lock' = p
    /\ pc' = [ pc EXCEPT ![p] = "body" ]
    /\ UNCHANGED << utilVars, dirty, loc, self, mesh, objs, sceneObjects, sceneGeometry,
                    notif >>

\* line 641: std::lock_guard on scene->mutex
SyncLock(p) ==
    /\ Running
    /\ pc[p] = "lock"
    /\ lock = 0
    /\ lock' = p
    /\ pc' = [ pc EXCEPT ![p] = "body" ]
    /\ UNCHANGED << utilVars, dirty, loc, self, mesh, objs, sceneObjects, sceneGeometry,
                    notif >>

\* lines 643-1122: the body of Sync, up to the clearing of the dirty bits, or
\* up to the point where it faults or enters the loop of _AddNormals
SyncBody(p, D) ==
    /\ Running
    /\ pc[p] = "body"
    /\ \E ext \in When("DirtyPoints" \in dirty[p], D.computed, NoExtComputation),
          topology \in When(IsTopologyDirty(dirty[p]) \/ IsSubdivTagsDirty(dirty[p])
                              \/ IsDisplayStyleDirty(dirty[p]),
                            D.topologies, EmptyTopology),
          doubleSided \in When("DirtyDoubleSided" \in dirty[p], D.doubleSided, FALSE),
          refineLevel \in When(IsTopologyDirty(dirty[p]) \/ IsSubdivTagsDirty(dirty[p])
                                 \/ IsDisplayStyleDirty(dirty[p]),
                               D.refineLevels, 0),
          pointSamples \in D.pointSamples :
        \E pulled \in { [ PullSceneData(Context(p), dirty[p], ext, topology,
                                        doubleSided, refineLevel)
                             EXCEPT !.read.ext = ext,
                                    !.read.pointSamples = pointSamples,
                                    !.read.topology = topology,
                                    !.read.refineLevel = refineLevel ] } :
        \E descs \in When(pulled.newMesh, D.primvars, << >>),
           points \in When(pulled.newMesh, D.points, << >>) :
        \E built \in { [ CreateCyclesMesh(pulled, dirty[p], descs, points)
                            EXCEPT !.read.descs = descs,
                                   !.read.points = points ] } :
            IF built.crashed \/ built.hung THEN Commit(p, built)
            ELSE
            \E xf \in When("DirtyTransform" \in dirty[p], D.transforms, << >>),
               primId \in When("DirtyPrimID" \in dirty[p], D.primIds, 0),
               materialId \in When("DirtyMaterialId" \in dirty[p], D.materials, ""),
               visible \in When("DirtyVisibility" \in dirty[p], D.visible, TRUE) :
            \E synced \in { [ SyncObjectState(built, dirty[p], xf, primId,
                                              materialId, visible)
                                EXCEPT !.read.primId = primId,
                                       !.read.xf = xf ] } :
                IF synced.crashed THEN Commit(p, synced)
                ELSE
                \E instanceTransforms \in
                       When((synced.newMesh \/ "DirtyInstancer" \in dirty[p])
                              /\ synced.self.instanced,
                            D.instancers, << >>),
                   needGenerated \in When(synced.newMesh, D.needGenerated, FALSE) :
                \E instanced \in { SyncInstancesState(p, synced, dirty[p],
                                                      instanceTransforms) } :
                \E done \in { FinishSync(instanced, needGenerated) } :
                    Commit(p, done)
    /\ UNCHANGED << utilVars, dirty, lock, sceneGeometry >>

\* lines 436-443: an iteration of the inner loop, which tests j and
\* increments idx; the write is in bounds or corrupts memory without a fault
AddNormalsIterate(p) ==
    /\ Running
    /\ pc[p] = "AddNormals"
    /\ loc[p].idx < MaxIdx
    /\ loc' = [ loc EXCEPT ![p].idx = @ + 1 ]
    /\ UNCHANGED << utilVars, pc, dirty, lock, self, mesh, objs, sceneObjects, sceneGeometry,
                    notif >>

\* lines 436-443: the access past the end of the buffers faults
AddNormalsFault(p) ==
    /\ Running
    /\ pc[p] = "AddNormals"
    /\ loc[p].idx >= Len(mesh[p].triangles)
    /\ pc' = [ pc EXCEPT ![p] = "crashed" ]
    /\ UNCHANGED << utilVars, dirty, lock, loc, self, mesh, objs, sceneObjects, sceneGeometry,
                    notif >>

\* a return that leaves the dirty bits as they are
SyncLeave(p) ==
    /\ Running
    /\ pc[p] = "return"
    /\ lock' = 0
    /\ pc' = [ pc EXCEPT ![p] = "idle" ]
    /\ loc' = [ loc EXCEPT ![p] = NoLocals ]
    /\ notif' = [ notif EXCEPT ![p] = NoNotif ]
    /\ UNCHANGED << utilVars, dirty, self, mesh, objs, sceneObjects, sceneGeometry >>

\* lines 1124-1125: clear the dirty bits; the lock_guard releases the mutex
SyncReturn(p) ==
    /\ Running
    /\ pc[p] = "return"
    /\ dirty' = [ dirty EXCEPT ![p] = Clean ]
    /\ lock' = 0
    /\ pc' = [ pc EXCEPT ![p] = "idle" ]
    /\ loc' = [ loc EXCEPT ![p] = NoLocals ]
    /\ notif' = [ notif EXCEPT ![p] = NoNotif ]
    /\ UNCHANGED << utilVars, self, mesh, objs, sceneObjects, sceneGeometry >>

(***************************************************************************)
(* ~HdCyclesMesh (lines 124-145), one action per statement group.          *)
(***************************************************************************)
\* lines 126-129
DestroyMesh(p) ==
    /\ Running
    /\ pc[p] = "idle"
    /\ sceneGeometry' = sceneGeometry \ { p }
    /\ mesh' = [ mesh EXCEPT ![p].alive = FALSE ]
    /\ pc' = [ pc EXCEPT ![p] = "dtor_object" ]
    /\ UNCHANGED << utilVars, dirty, lock, loc, self, objs, sceneObjects, notif >>

\* lines 131-134
DestroyObject(p) ==
    /\ Running
    /\ pc[p] = "dtor_object"
    /\ sceneObjects' = sceneObjects \ { p }
    /\ objs' = [ objs EXCEPT ![p] = FreeObject ]
    /\ pc' = [ pc EXCEPT ![p] = "dtor_instances" ]
    /\ UNCHANGED << utilVars, dirty, lock, loc, self, mesh, sceneGeometry, notif >>

\* a teardown that leaves the instance objects where they are
DestroyInstancesLeft(p) ==
    /\ Running
    /\ pc[p] = "dtor_instances"
    /\ pc' = [ pc EXCEPT ![p] = "dead" ]
    /\ UNCHANGED << utilVars, dirty, lock, loc, self, mesh, objs, sceneObjects,
                    sceneGeometry, notif >>

\* lines 136-144
DestroyInstances(p) ==
    /\ Running
    /\ pc[p] = "dtor_instances"
    /\ sceneObjects' = sceneObjects \ Range(self[p].m_cyclesInstances)
    /\ objs' = [ o \in ObjIds |->
                   IF o \in Range(self[p].m_cyclesInstances)
                   THEN FreeObject ELSE objs[o] ]
    /\ pc' = [ pc EXCEPT ![p] = "dead" ]
    /\ UNCHANGED << utilVars, dirty, lock, loc, self, mesh, sceneGeometry, notif >>

(***************************************************************************)
(* Scene delegate values the model draws from.                             *)
(***************************************************************************)
TriangleTopology ==
    [ counts |-> << 3 >>, indices |-> << 0, 1, 2 >>, subsets |-> << >>,
      orientation |-> "rightHanded" ]

QuadTriTopology ==
    [ counts |-> << 4, 3 >>, indices |-> << 0, 1, 2, 3, 0, 3, 4 >>,
      subsets |-> << [ materialId |-> "matA", indices |-> { 1 } ] >>,
      orientation |-> "rightHanded" ]

\* one quad whose corners are the vertices 3, 1, 0, 2
QuadTopology ==
    [ counts |-> << 4 >>, indices |-> << 3, 1, 0, 2 >>, subsets |-> << >>,
      orientation |-> "rightHanded" ]

PointsA == << 10, 11, 12, 13, 14 >>
PointsB == << 20, 21, 22, 23, 24 >>

ComputedPoints == [ has |-> TRUE, found |-> TRUE, val |-> PointsB ]

Primvar(name, role, interp, ok) ==
    [ name |-> name, role |-> role, interp |-> interp, ok |-> ok,
      vals |-> << 1 >> ]

\* the same descriptor with the array of values the delegate returns for it
PrimvarOf(name, role, interp, vals) ==
    [ Primvar(name, role, interp, TRUE) EXCEPT !.vals = vals ]

\* transform samples: sequences of [t, v]
Sample(t, v) == [ t |-> t, v |-> v ]

\* the instancer's transforms of n instances, sampled at time 0
InstanceTransforms(n) == << [ t |-> 0, vals |-> [ i \in 1 .. n |-> i ] ] >>

Instancers == { << >> } \cup { InstanceTransforms(n) : n \in 0 .. MaxInstances }

NextOf(D) ==
    \E p \in D.prims :
        \/ \E bits \in D.masks : SyncCall(p, bits)
        \/ SyncLock(p)
        \/ SyncBody(p, D)
        \/ SyncReturn(p)
        \/ DestroyMesh(p)
        \/ DestroyObject(p)
        \/ DestroyInstances(p)

(***************************************************************************)
(* Spec: one primitive, with or without an instancer, synced with every    *)
(* mask over the bits of the object state.                                 *)
(***************************************************************************)
Scene ==
    [ prims |-> { 1 },
      masks |-> SUBSET { "DirtyPrimID", "DirtyMaterialId", "DirtyTopology",
                         "DirtyTransform", "DirtyVisibility" },
      computed |-> { NoExtComputation },
      topologies |-> { TriangleTopology },
      refineLevels |-> { 0 },
      primvars |-> { << >> },
      points |-> { PointsA },
      transforms |-> { << >>, << Sample(0, 1) >> },
      primIds |-> { 0, 1 },
      materials |-> { "", "matA" },
      instancers |-> { InstanceTransforms(1) },
      needGenerated |-> { FALSE },
      doubleSided |-> { FALSE },
      pointSamples |-> { << >> },
      visible |-> BOOLEAN ]

Init == InitWith({ FALSE }, BOOLEAN)
Next == NextOf(Scene)
Spec == Init /\ [][Next]_vars

(***************************************************************************)
(* SpecInstances: one point-instanced primitive whose instancer yields     *)
(* zero to MaxInstances instances.                                         *)
(***************************************************************************)
InstancedScene ==
    [ prims |-> { 1 },
      masks |-> SUBSET { "DirtyTopology", "DirtyTransform", "DirtyVisibility",
                         "DirtyInstancer", "DirtyDoubleSided", "DirtyMaterialId" },
      computed |-> { NoExtComputation },
      topologies |-> { TriangleTopology },
      refineLevels |-> { 0 },
      primvars |-> { << >> },
      points |-> { PointsA },
      transforms |-> { << >>, << Sample(0, 1) >> },
      primIds |-> { 0 },
      materials |-> { "matA" },
      instancers |-> Instancers,
      needGenerated |-> { FALSE },
      doubleSided |-> BOOLEAN,
      pointSamples |-> { << >> },
      visible |-> BOOLEAN ]

InitInstances == InitWith({ FALSE }, { TRUE })
NextInstances == NextOf(InstancedScene)
SpecInstances == InitInstances /\ [][NextInstances]_vars

(***************************************************************************)
(* SpecLock: every primitive of the scene, each synced by its own thread.  *)
(***************************************************************************)
LockScene ==
    [ prims |-> Prims,
      masks |-> { Clean, { "DirtyPrimID" }, { "DirtyTransform" } },
      computed |-> { NoExtComputation },
      topologies |-> { TriangleTopology },
      refineLevels |-> { 0 },
      primvars |-> { << >> },
      points |-> { PointsA },
      transforms |-> { << Sample(0, 1) >> },
      primIds |-> { 0 },
      materials |-> { "" },
      instancers |-> { << >> },
      needGenerated |-> { FALSE },
      doubleSided |-> { FALSE },
      pointSamples |-> { << >> },
      visible |-> { TRUE } ]

InitLock == InitWith({ FALSE }, { FALSE })
NextLock == NextOf(LockScene)
SpecLock == InitLock /\ [][NextLock]_vars

(***************************************************************************)
(* SpecNormals: one primitive with a normals primvar, under a scheduler    *)
(* that keeps running a thread that can take a step.  The fault of an      *)
(* out-of-bounds access is possible, never certain, so it is not part of   *)
(* the fairness condition.                                                 *)
(***************************************************************************)
NormalsScene ==
    [ prims |-> { 1 },
      masks |-> SUBSET { "DirtyTopology", "DirtyNormals", "DirtyVisibility",
                         "DirtyPrimID" },
      computed |-> { NoExtComputation },
      topologies |-> { TriangleTopology },
      refineLevels |-> { 0 },
      primvars |-> { << >>,
                     << Primvar("normals", "normal", "uniform", TRUE) >>,
                     << Primvar("normals", "normal", "vertex", TRUE) >> },
      points |-> { PointsA },
      transforms |-> { << >> },
      primIds |-> { 0, 1 },
      materials |-> { "" },
      instancers |-> { << >> },
      needGenerated |-> { FALSE },
      doubleSided |-> { FALSE },
      pointSamples |-> { << >> },
      visible |-> BOOLEAN ]

InitNormals == InitWith({ FALSE }, { FALSE })

NextNormals ==
    \/ NextOf(NormalsScene)
    \/ \E p \in NormalsScene.prims : AddNormalsIterate(p)
    \/ \E p \in NormalsScene.prims : AddNormalsFault(p)

SpecNormals ==
    /\ InitNormals
    /\ [][NextNormals]_vars
    /\ \A p \in NormalsScene.prims :
         /\ WF_vars(SyncLock(p))
         /\ WF_vars(SyncBody(p, NormalsScene))
         /\ WF_vars(AddNormalsIterate(p))
         /\ WF_vars(SyncReturn(p))

(***************************************************************************)
(* Properties.                                                             *)
(***************************************************************************)
InstanceIds(p) == Range(self[p].m_cyclesInstances)

\* the step in which p's Sync runs its body to the end
BodyStep(p) == pc[p] = "body" /\ pc'[p] = "return"

\* p is between the acquisition of the scene mutex and its release
InCriticalSection(p) == pc[p] \in { "body", "AddNormals", "return" }

C2_MutationsUnderLock ==
    [][ /\ \A p, q \in Prims :
             (InCriticalSection(p) /\ InCriticalSection(q)) => p = q
        /\ \A p \in Prims : InCriticalSection(p) => lock = p
        /\ \A p \in Prims :
             (/\ pc[p] \in { "idle", "lock", "body", "AddNormals", "return" }
              /\ pc'[p] \in { "lock", "body", "AddNormals", "return", "crashed" }
              /\ (Renderer(p)' # Renderer(p) \/ self'[p] # self[p]))
               => (lock = p /\ lock' = p) ]_vars

\* one Sync has rebuilt its mesh and still holds the mutex while another
\* primitive's Sync waits for it
C2_Witness ==
    \E p, q \in Prims :
        /\ p # q
        /\ pc[p] = "return" /\ lock = p /\ loc[p].newMesh
        /\ pc[q] = "lock"

\* C3: every Sync that holds the scene mutex returns.
C3_SyncReturns ==
    \A p \in Prims : (pc[p] = "body") ~> (pc[p] = "idle")

\* C4: a Sync that changes anything the renderer holds for the primitive has
\* tagged the mesh and the object and interrupted the render when it returns.
C4_ChangeIsTagged ==
    [][ \A p \in Prims :
          (BodyStep(p) /\ Renderer(p)' # Renderer(p))
            => (notif'[p].meshTag /\ notif'[p].objectTag /\ notif'[p].interrupt)
      ]_vars

\* C5: the step in which Sync returns leaves the dirty bits clean.
C5_ReturnsClean ==
    [][ \A p \in Prims :
          (pc[p] = "return" /\ pc'[p] = "idle") => dirty'[p] = Clean ]_vars

\* a Sync has returned: the primitive has the pass id the first Sync gave it
C5_Witness ==
    \E p \in Prims :
        pc[p] = "idle" /\ dirty[p] = Clean /\ objs[p].pass_id # -1
        /\ self[p].m_refiner.valid

\* C6: a Sync of a point-instanced primitive with a dirty instancer, topology
\* or transform destroys every instance object that existed before it.
C6_InstancesRebuilt ==
    [][ \A p \in Prims :
          (/\ BodyStep(p)
           /\ self[p].instanced
           /\ dirty[p] \cap { "DirtyInstancer", "DirtyTopology", "DirtyTransform" } # {})
            => \A o \in InstanceIds(p) :
                   /\ ~objs'[o].alive
                   /\ o \notin sceneObjects'
                   /\ o \notin InstanceIds(p)' ]_vars

\* C7: when the instance block has run with a resolved instancer, the list
\* holds one live, registered object per instance transform of the first time
\* sample, all distinct, each with the prototype mesh as geometry, and no
\* object of the old list is in the new list, registered or alive.
C7_InstancesMatchInstancer ==
    [][ \A p \in Prims :
          (BodyStep(p) /\ loc'[p].resolved)
            => /\ Len(self'[p].m_cyclesInstances)
                    = newNumInstances(loc'[p].instanceTransforms)
               /\ Cardinality(InstanceIds(p)') = Len(self'[p].m_cyclesInstances)
               /\ \A o \in InstanceIds(p)' :
                      /\ objs'[o].alive
                      /\ objs'[o].geometry = p
                      /\ o \in sceneObjects'
               /\ \A o \in InstanceIds(p) :
                      /\ o \notin InstanceIds(p)'
                      /\ o \notin sceneObjects'
                      /\ ~objs'[o].alive ]_vars

\* a rebuild has replaced an earlier instance set by MaxInstances instances
C7_Witness ==
    \E p \in Prims :
        /\ pc[p] = "return"
        /\ loc[p].resolved
        /\ Len(self[p].m_cyclesInstances) = MaxInstances
        /\ \E o \in InstancePool(p) : \A i \in InstanceIds(p) : o < i

C9_PrototypeRestored ==
    \A p \in Prims :
        (pc[p] = "return" /\ loc[p].resolved /\ self[p].visible
         /\ self[p].m_cyclesInstances = << >>)
          => objs[p].visibility = PATH_RAY_ALL_VISIBILITY

\* C10: a live instance object registered with the renderer references a
\* mesh that has not been destroyed.
C10_InstancesDieFirst ==
    \A p \in Prims : \A o \in InstancePool(p) :
        (o \in sceneObjects /\ objs[o].alive) => mesh[objs[o].geometry].alive

(***************************************************************************)
(* SpecMaterials: one primitive whose topology has no face, one face, or   *)
(* two faces of which the second is a geometric subset bound to a          *)
(* material; the primitive's own binding is empty or names a material;     *)
(* displayColor is absent or a constant of one or two values.              *)
(***************************************************************************)
DisplayColorOf(vals) == PrimvarOf("displayColor", "color", "constant", vals)

MaterialScene ==
    [ prims |-> { 1 },
      masks |-> SUBSET { "DirtyTopology", "DirtyMaterialId", "DirtyPrimvar" },
      computed |-> { NoExtComputation },
      topologies |-> { EmptyTopology, TriangleTopology, QuadTriTopology },
      refineLevels |-> { 0 },
      primvars |-> { << >>, << DisplayColorOf(<< 7 >>) >>,
                     << DisplayColorOf(<< 8, 9 >>) >> },
      points |-> { PointsA },
      transforms |-> { << >> },
      primIds |-> { 0 },
      materials |-> { "", "matA", "matB" },
      instancers |-> { << >> },
      needGenerated |-> { FALSE },
      doubleSided |-> { FALSE },
      pointSamples |-> { << >> },
      visible |-> { TRUE } ]

InitMaterials == InitWith({ FALSE }, { FALSE })
NextMaterials == NextOf(MaterialScene)
SpecMaterials == InitMaterials /\ [][NextMaterials]_vars

\* the triangles the refiner makes of face f (counted from 0) of a topology
RECURSIVE TrianglesBefore(_, _)
TrianglesBefore(counts, f) ==
    IF f = 0 THEN 0 ELSE Max(counts[f] - 2, 0) + TrianglesBefore(counts, f - 1)

TrianglesOfFace(topology, f) ==
    (TrianglesBefore(topology.counts, f) + 1)
        .. TrianglesBefore(topology.counts, f + 1)

\* the faces of a topology that some geometric subset names
FacesInSubsets(topology) ==
    UNION { topology.subsets[k].indices : k \in DOMAIN topology.subsets }

\* C11: between calls and at return, every triangle of the renderer mesh has
\* a shader index that is an index into the mesh's used_shaders.
C11_MaterialIndexValid ==
    \A p \in Prims :
        pc[p] \in { "idle", "return" }
          => \A i \in DOMAIN mesh[p].triangles :
                 /\ mesh[p].triangles[i].shader >= 0
                 /\ mesh[p].triangles[i].shader < Len(mesh[p].used_shaders)

\* the shader a material id stands for in the shader list, "" if none
BoundShader(materialId) ==
    IF materialId # "" THEN GetCyclesShader(materialId) ELSE ""

\* C12: a Sync keeps every entry of the material-to-index map, every entry
\* names the place of its material's shader in the shader list, and after a
\* mesh rebuild every triangle of a face of a subset whose material resolves
\* carries that place (counted from 0) into the mesh's used_shaders.
C12_SubsetIndexStable ==
    [][ \A p \in Prims :
          BodyStep(p)
            => /\ \A e \in self[p].m_materialMap : e \in self'[p].m_materialMap
               /\ \A e \in self'[p].m_materialMap :
                      /\ e.v \in DOMAIN self'[p].m_usedShaders
                      /\ self'[p].m_usedShaders[e.v] = BoundShader(e.k)
               /\ loc'[p].newMesh
                    => \A k \in DOMAIN self'[p].m_topology.subsets :
                         LET subset == self'[p].m_topology.subsets[k]
                         IN  BoundShader(subset.materialId) # ""
                               => \A f \in subset.indices :
                                  \A t \in TrianglesOfFace(self'[p].m_topology, f) :
                                      /\ mesh'[p].triangles[t].shader + 1
                                           = MapAt(self'[p].m_materialMap,
                                                   subset.materialId)
                                      /\ mesh'[p].used_shaders[
                                             mesh'[p].triangles[t].shader + 1]
                                           = BoundShader(subset.materialId) ]_vars

\* a topology-only rebuild finds the subset's shader in the middle of a list
\* that a material Sync has extended since the shader was inserted
C12_Witness ==
    \E p \in Prims :
        /\ pc[p] = "return"
        /\ dirty[p] = { "DirtyTopology" }
        /\ self[p].m_topology = QuadTriTopology
        /\ Len(self[p].m_usedShaders) = 3
        /\ self[p].m_usedShaders[2] = "shaderA"
        /\ mesh[p].triangles[3].shader = 1

\* C13: between calls and at return, the triangles of a face that is in no
\* subset have shader index 0, and the first shader of the mesh is the one of
\* the primitive's own material, or a fallback shader if that material is
\* empty or has no shader.
C13_UnboundFacesUseOwnMaterial ==
    \A p \in Prims :
        (pc[p] \in { "idle", "return" } /\ mesh[p].triangles # << >>)
          => /\ \A f \in (0 .. GetNumFaces(self[p].m_topology) - 1)
                           \ FacesInSubsets(self[p].m_topology) :
                 \A t \in TrianglesOfFace(self[p].m_topology, f) :
                     mesh[p].triangles[t].shader = 0
             /\ mesh[p].used_shaders # << >>
             /\ mesh[p].used_shaders[1]
                  \in IF BoundShader(self[p].m_cachedMaterialId) # ""
                      THEN { BoundShader(self[p].m_cachedMaterialId) }
                      ELSE { "default_surface", "default_vcol_surface" }

\* C14: a Sync with DirtyMaterialId on a mesh with a face appends to the
\* shader list the shader of the bound material, or, if the binding is empty
\* or has no shader, the vertex-color fallback when the vertex-color flag is
\* set and the default surface otherwise.
C14_MaterialPushed ==
    [][ \A p \in Prims :
          (/\ BodyStep(p)
           /\ "DirtyMaterialId" \in dirty[p]
           /\ RefinedCounts(self'[p].m_refiner) # << >>)
            => /\ Len(self'[p].m_usedShaders) > Len(self[p].m_usedShaders)
               /\ self'[p].m_usedShaders[Len(self'[p].m_usedShaders)]
                    = IF BoundShader(self'[p].m_cachedMaterialId) # ""
                      THEN BoundShader(self'[p].m_cachedMaterialId)
                      ELSE IF self'[p].m_hasVertexColors
                      THEN "default_vcol_surface"
                      ELSE "default_surface"
               /\ mesh'[p].used_shaders = self'[p].m_usedShaders ]_vars

\* a material Sync with an empty binding on a vertex-colored primitive
C14_Witness ==
    \E p \in Prims :
        /\ pc[p] = "return"
        /\ dirty[p] = { "DirtyMaterialId" }
        /\ self[p].m_cachedMaterialId = ""
        /\ self[p].m_hasVertexColors
        /\ self[p].m_usedShaders # << >>
        /\ self[p].m_usedShaders[Len(self[p].m_usedShaders)] = "default_vcol_surface"

\* C15: in a mesh-rebuilding Sync a dirty constant displayColor holding one
\* value c makes the object's flat color c and sets the vertex-color flag;
\* one holding another number of values leaves the flat color as it was.
C15_ConstantDisplayColor ==
    [][ \A p \in Prims :
          (BodyStep(p) /\ loc'[p].newMesh)
            => \A k \in DOMAIN loc'[p].read.descs :
                 LET pv == loc'[p].read.descs[k]
                 IN  (/\ pv.name = "displayColor"
                      /\ pv.interp = "constant"
                      /\ pv.ok
                      /\ IsPrimvarDirty(dirty[p], pv.name))
                       => IF Len(pv.vals) = 1
                          THEN /\ objs'[p].color = pv.vals[1]
                               /\ self'[p].m_hasVertexColors
                          ELSE objs'[p].color = objs[p].color ]_vars

TransformSamples ==
    { << >>,
      << Sample(0, 1) >>,
      << Sample(-1, 1), Sample(0, 2) >>,
      << Sample(-1, 1), Sample(1, 2) >>,
      << Sample(-1, 1), Sample(0, 2), Sample(1, 3) >>,
      << Sample(-1, 1), Sample(1, 2), Sample(2, 3) >> }

\* position samples at the shutter times -0.5, 0 and 0.5, in half shutters
PointSamples == << Sample(-1, PointsA), Sample(0, PointsA), Sample(1, PointsB) >>

MotionScene ==
    [ prims |-> { 1 },
      masks |-> SUBSET { "DirtyTransform", "DirtyTopology", "DirtyPoints" },
      computed |-> { NoExtComputation, ComputedPoints },
      topologies |-> { TriangleTopology },
      refineLevels |-> { 0 },
      primvars |-> { << >> },
      points |-> { PointsA },
      transforms |-> TransformSamples,
      primIds |-> { 0 },
      materials |-> { "" },
      instancers |-> { << >> },
      needGenerated |-> { FALSE },
      doubleSided |-> { FALSE },
      pointSamples |-> { << >>, PointSamples },
      visible |-> { TRUE } ]

InitMotion == InitWith({ TRUE }, { FALSE })
NextMotion == NextOf(MotionScene)
SpecMotion == InitMotion /\ [][NextMotion]_vars

\* C17: a Sync with DirtyTransform leaves the object's base transform at
\* identity for zero samples, at the only sample for one, and for several at
\* the sample of time 0, or the first sample if no sample has time 0.
C17_BaseTransform ==
    [][ \A p \in Prims :
          (BodyStep(p) /\ "DirtyTransform" \in dirty[p])
            => LET xf == loc'[p].read.xf
                   tfm == objs'[p].tfm
               IN  IF Len(xf) = 0 THEN tfm = transform_identity
                   ELSE IF Len(xf) = 1 THEN tfm = mat4d_to_transform(xf[1].v)
                   ELSE IF \E i \in DOMAIN xf : xf[i].t = 0
                   THEN \E i \in DOMAIN xf :
                            xf[i].t = 0 /\ tfm = mat4d_to_transform(xf[i].v)
                   ELSE tfm = mat4d_to_transform(xf[1].v) ]_vars

\* two samples, the second at time 0: the base transform is the second
C17_Witness ==
    \E p \in Prims :
        /\ pc[p] = "return"
        /\ "DirtyTransform" \in dirty[p]
        /\ loc[p].read.xf = << Sample(-1, 1), Sample(0, 2) >>
        /\ objs[p].tfm = mat4d_to_transform(2)

\* C18: after a Sync with DirtyTransform on a primitive with motion blur the
\* object's motion array is empty or has as many entries as the geometry's
\* motion-step count, and when the sample count equals the motion-step count
\* it holds the sampled transforms in sample order.
C18_MotionArray ==
    [][ \A p \in Prims :
          (BodyStep(p) /\ "DirtyTransform" \in dirty[p] /\ self[p].m_useMotionBlur)
            => LET xf == loc'[p].read.xf
                   motion == objs'[p].motion
               IN  /\ Len(motion) \in { 0, mesh'[p].motion_steps }
                   /\ (Len(xf) = mesh'[p].motion_steps)
                        => motion = [ i \in DOMAIN xf |->
                                        mat4d_to_transform(xf[i].v) ] ]_vars

\* two samples on a geometry of three motion steps with motion blur on: the
\* array is resized to the three steps
C18_Witness ==
    \E p \in Prims :
        /\ pc[p] = "return"
        /\ "DirtyTransform" \in dirty[p]
        /\ Len(loc[p].read.xf) = 2
        /\ Len(objs[p].motion) = 3
        /\ mesh[p].use_motion_blur

\* C19: with deform motion blur and N > 1 position samples a rebuilding Sync
\* sets the mesh's motion-step count to N + 1 and writes the motion
\* positions.
C19_MotionSteps ==
    [][ \A p \in Prims :
          (/\ BodyStep(p)
           /\ loc'[p].newMesh
           /\ self[p].m_useMotionBlur /\ self[p].m_useDeformMotionBlur
           /\ Len(loc'[p].read.pointSamples) > 1)
            => /\ mesh'[p].motion_steps = Len(loc'[p].read.pointSamples) + 1
               /\ "motion_P" \in mesh'[p].attrs ]_vars

\* C20: a Sync in which the computed points are dirty and the computation
\* yields a value rebuilds the mesh with the computed value as its vertices.
C20_ComputedPointsWritten ==
    [][ \A p \in Prims :
          (/\ BodyStep(p)
           /\ "DirtyPoints" \in dirty[p]
           /\ loc'[p].read.ext.has /\ loc'[p].read.ext.found)
            => /\ loc'[p].newMesh
               /\ mesh'[p].verts
                    = RefineVertexData(self'[p].m_refiner, loc'[p].read.ext.val) ]_vars

(***************************************************************************)
(* SpecTopology: one primitive whose topology, display style and object    *)
(* state change in every combination; the two cache flags start with       *)
(* either value.                                                           *)
(***************************************************************************)
TopologyScene ==
    [ prims |-> { 1 },
      masks |-> SUBSET { "DirtyTopology", "DirtyDisplayStyle", "DirtyDoubleSided",
                         "DirtyVisibility", "DirtyMaterialId", "DirtyTransform",
                         "DirtyPrimID" },
      computed |-> { NoExtComputation },
      topologies |-> { TriangleTopology, QuadTriTopology },
      refineLevels |-> { 0, 1 },
      primvars |-> { << >>, << Primvar("st", "textureCoordinate", "vertex", TRUE) >> },
      points |-> { PointsA },
      transforms |-> { << Sample(0, 1) >> },
      primIds |-> { 0 },
      materials |-> { "" },
      instancers |-> { << >> },
      needGenerated |-> { FALSE },
      doubleSided |-> { TRUE },
      pointSamples |-> { << >> },
      visible |-> BOOLEAN ]

InitTopology == InitWithCaches({ FALSE }, { FALSE }, BOOLEAN)
NextTopology == NextOf(TopologyScene)
SpecTopology == InitTopology /\ [][NextTopology]_vars

\* p leaves the body of Sync, by return or not
BodyRan(p) == pc[p] = "body" /\ pc'[p] # "body"

\* the Sync of p reads the topology anew
TopologyPulled(p) ==
    IsTopologyDirty(dirty[p]) \/ IsSubdivTagsDirty(dirty[p])
        \/ IsDisplayStyleDirty(dirty[p])

\* C21: a Sync with topology, subdivision tags or display style dirty builds
\* a refiner whose level is the display style's refine level clamped to the
\* maximum subdivision, hence never above the requested refine level.
C21_RefinerLevelFollowsDisplayStyle ==
    [][ \A p \in Prims :
          (BodyStep(p) /\ TopologyPulled(p))
            => self'[p].m_refiner.level <= loc'[p].read.refineLevel ]_vars

\* C22: the refiner of a primitive is the one built from its topology
\* snapshot; a Sync replaces both or neither, and a replacement marks the
\* mesh new and clears the adjacency and normals flags.
C22_RefinerOfSnapshot ==
    [][ \A p \in Prims :
          /\ (BodyRan(p) /\ TopologyPulled(p))
               => /\ self'[p].m_topology = loc'[p].read.topology
                  /\ self'[p].m_refiner = CreateRefiner(self'[p].m_topology, 2)
                  /\ loc'[p].newMesh
                  /\ ~self'[p].m_adjacencyValid
                  /\ ~self'[p].m_normalsValid
          /\ ~(BodyRan(p) /\ TopologyPulled(p))
               => /\ self'[p].m_topology = self[p].m_topology
                  /\ self'[p].m_refiner = self[p].m_refiner
          /\ IF self'[p].m_refiner.valid
             THEN self'[p].m_refiner.topology = self'[p].m_topology
             ELSE self'[p].m_topology = EmptyTopology ]_vars

\* a later Sync has replaced the triangle by the quad and the triangle, and
\* the refiner with it
C22_Witness ==
    \E p \in Prims :
        /\ pc[p] = "return"
        /\ dirty[p] = { "DirtyTopology" }
        /\ self[p].m_topology = QuadTriTopology
        /\ self[p].m_refiner.topology = QuadTriTopology
        /\ Len(mesh[p].triangles) = 3

ObjectStateBits ==
    { "DirtyDoubleSided", "DirtyVisibility", "DirtyMaterialId", "DirtyTransform",
      "DirtyPrimID" }

\* C23: a Sync whose dirty bits are all among double-sided, visibility,
\* material id, transform and prim id keeps the topology snapshot and the
\* refiner and does not rebuild the renderer mesh: its vertices, triangles
\* and attributes stay as they were.
C23_ObjectStateKeepsMesh ==
    [][ \A p \in Prims :
          (BodyRan(p) /\ dirty[p] \subseteq ObjectStateBits)
            => /\ self'[p].m_topology = self[p].m_topology
               /\ self'[p].m_refiner = self[p].m_refiner
               /\ ~loc'[p].newMesh
               /\ mesh'[p].verts = mesh[p].verts
               /\ mesh'[p].triangles = mesh[p].triangles
               /\ mesh'[p].attrs = mesh[p].attrs ]_vars

\* all five bits at once on a mesh that has vertices and an attribute
C23_Witness ==
    \E p \in Prims :
        /\ pc[p] = "return"
        /\ dirty[p] = ObjectStateBits
        /\ mesh[p].verts # << >>
        /\ mesh[p].attrs # {}
        /\ ~loc[p].newMesh

(***************************************************************************)
(* Attribute populators, lines 1790-2045.  A value is the VtValue handed   *)
(* to _PopulateAttribute: the type its array holds and the array.  A       *)
(* result is what one populator did: the value it returned, the cells it   *)
(* wrote from the start of the attribute's buffer, in order, the source    *)
(* indices it read, and whether it read or wrote out of bounds.            *)
(***************************************************************************)
MaxFaces == 2
MaxCorners == 4

Iota(n) == [ i \in 1 .. n |-> i ]

PopulateTypes == { "float", "vec3f", "string" }
Interpolations == { "constant", "uniform", "vertex", "faceVarying", "instance" }
Orientations == { "rightHanded", "leftHanded" }

FaceCounts == UNION { [ 1 .. n -> 1 .. MaxCorners ] : n \in 0 .. MaxFaces }

\* what a read past the end of the source array may yield
Garbage == { 0, 99 }

\* the chain of IsHolding tests of one interpolation branch, lines 1898-1926
IsHoldingSupported(value) == value.type \in { "float", "vec3f" }

\* lines 1690-1788: the renderer's float type of the same number (the
\* numbers used here are exactly representable)
to_cycles(v) == [ float |-> v ]

\* usd_data[i], i counted from 0
At(vals, i, g) == IF i + 1 \in DOMAIN vals THEN vals[i + 1] ELSE g

PopulateResult(ret, data, reads, diag, fault) ==
    [ ret |-> ret, data |-> data, reads |-> reads, diag |-> diag, fault |-> fault ]

\* lines 1790-1807
_PopulateAttribte_Vertex(value) ==
    LET arr_size == Len(value.vals)
    IN  IF arr_size <= 0 THEN PopulateResult(FALSE, << >>, << >>, "", FALSE)
        ELSE PopulateResult(TRUE,
                            [ i \in 1 .. arr_size |-> to_cycles(value.vals[i]) ],
                            << >>, "", FALSE)

\* one cell per face instead of one per triangle
_PopulateAttribte_PerFace(value, counts) ==
    LET arr_size == Len(value.vals)
    IN  IF arr_size <= 0 THEN PopulateResult(FALSE, << >>, << >>, "", FALSE)
        ELSE PopulateResult(TRUE,
                            [ i \in 1 .. arr_size |-> to_cycles(value.vals[i]) ],
                            << >>, "", FALSE)

\* lines 1809-1828; the bound counts[i] - 2 of the inner loop is compared
\* with a size_t, so a face of fewer than 2 corners never ends the loop
_PopulateAttribte_Uniform(value, counts) ==
    LET arr_size == Len(value.vals)
        cells(i) == IF i \in DOMAIN counts THEN Max(counts[i] - 2, 0) ELSE 0
        fault == \E i \in 1 .. arr_size :
                     i \notin DOMAIN counts \/ counts[i] < 2
    IN  IF arr_size <= 0 THEN PopulateResult(FALSE, << >>, << >>, "", FALSE)
        ELSE PopulateResult(TRUE,
                            Flatten([ i \in 1 .. arr_size |->
                                        [ j \in 1 .. cells(i) |->
                                            to_cycles(value.vals[i]) ] ]),
                            << >>, "", fault)

\* the third corner read one place further
FaceVaryingReadsBeyond(counts, orientation) ==
    Flatten([ i \in 1 .. Len(counts) |->
                LET vCount == counts[i]
                    count == CornerStart(counts, i - 1)
                IN  [ j \in 1 .. Max(vCount - 2, 0) |->
                        [ face |-> i, v |-> << count, count + j, count + j + 2 >> ] ] ])

\* lines 1844-1864: the source indices v0, v1, v2 of every fan triangle
FaceVaryingReads(counts, orientation) ==
    Flatten([ i \in 1 .. Len(counts) |->
                LET vCount == counts[i]
                    count == CornerStart(counts, i - 1)
                IN  [ j \in 1 .. Max(vCount - 2, 0) |->
                        IF orientation = "leftHanded"
                        THEN [ face |-> i,
                               v |-> << count, count + ((vCount - 1) - j) + 0,
                                        count + ((vCount - 1) - j) + 1 >> ]
                        ELSE [ face |-> i,
                               v |-> << count, count + j + 0, count + j + 1 >> ] ] ])

\* lines 1830-1868; g is what a read past the end of usd_data yields
_PopulateAttribte_FaceVarying(value, counts, orientation, g) ==
    LET arr_size == Len(value.vals)
        reads == FaceVaryingReads(counts, orientation)
    IN  IF arr_size <= 0 THEN PopulateResult(FALSE, << >>, << >>, "", FALSE)
        ELSE PopulateResult(TRUE,
                            Flatten([ t \in 1 .. Len(reads) |->
                                        [ c \in 1 .. 3 |->
                                            to_cycles(At(value.vals,
                                                         reads[t].v[c], g)) ] ]),
                            reads, "",
                            \E t \in 1 .. Len(reads) : \E c \in 1 .. 3 :
                                reads[t].v[c] >= arr_size)

\* the first element of any array that has one
_PopulateAttribte_First(value) ==
    IF Len(value.vals) < 1
    THEN PopulateResult(FALSE, << >>, << >>, "incompatible size", FALSE)
    ELSE PopulateResult(TRUE, << to_cycles(value.vals[1]) >>, << >>, "", FALSE)

\* lines 1870-1887
_PopulateAttribte_Constant(value) ==
    IF Len(value.vals) # 1
    THEN PopulateResult(FALSE, << >>, << >>, "incompatible size", FALSE)
    ELSE PopulateResult(TRUE, << to_cycles(value.vals[1]) >>, << >>, "", FALSE)

\* an array as long as the face count taken for oversized
OversizedOrEqual(value, counts) == Len(value.vals) >= Len(counts)

\* line 1932
Oversized(value, counts) == Len(value.vals) > Len(counts)

(***************************************************************************)
(* SpecPopulate: calls of _PopulateAttribute with every interpolation,     *)
(* arrays 1, 2, .. of every length up to the corners of MaxFaces faces,    *)
(* and every list of at most MaxFaces face-vertex counts.                  *)
(***************************************************************************)
PopulateCall ==
    /\ pop.pc = "idle"
    /\ \E interpolation \in Interpolations, type \in PopulateTypes,
          n \in 0 .. MaxFaces * MaxCorners, counts \in FaceCounts,
          orientation \in Orientations,
          numVerts \in 0 .. MaxCorners :
         /\ interpolation # "vertex" => numVerts = 0
         /\ pop' = [ NoPopulate EXCEPT !.pc = "dispatch",
                                       !.interpolation = interpolation,
                                       !.value = [ type |-> type,
                                                   vals |-> Iota(n) ],
                                       !.counts = counts,
                                       !.orientation = orientation,
                                       !.numVerts = numVerts ]
    /\ UNCHANGED << syncVars, vt, loader >>

\* lines 1890-2041: the choice of the populator
_PopulateAttribute ==
    /\ pop.pc = "dispatch"
    /\ pop' = IF pop.interpolation \notin { "vertex", "uniform", "faceVarying",
                                            "constant" }
              THEN [ pop EXCEPT !.pc = "done",
                                !.diag = "unsupported interpolation" ]
              ELSE IF pop.interpolation = "uniform"
                        /\ Oversized(pop.value, pop.counts)
              THEN [ pop EXCEPT !.pc = "done", !.diag = "oversized" ]
              ELSE IF IsHoldingSupported(pop.value)
              THEN [ pop EXCEPT !.pc = pop.interpolation ]
              ELSE [ pop EXCEPT !.pc = "done" ]
    /\ UNCHANGED << syncVars, vt, loader >>

\* a populator's result stored, or the process stopped by its fault
Populated(name, r) ==
    pop' = [ pop EXCEPT !.pc = "done", !.called = name, !.ret = r.ret,
                        !.data = r.data, !.reads = r.reads, !.diag = r.diag ]

\* the attribute's buffer holds one cell per vertex of the mesh: a write
\* past it either goes unnoticed or stops the process
PopulateVertex ==
    /\ pop.pc = "vertex"
    /\ \E r \in { _PopulateAttribte_Vertex(pop.value) } :
         \/ Populated("vertex", r)
         \/ /\ Len(r.data) > pop.numVerts
            /\ pop' = [ pop EXCEPT !.pc = "crashed", !.called = "vertex" ]
    /\ UNCHANGED << syncVars, vt, loader >>

PopulateUniform ==
    /\ pop.pc = "uniform"
    /\ \E r \in { _PopulateAttribte_Uniform(pop.value, pop.counts) } :
         IF r.fault THEN pop' = [ pop EXCEPT !.pc = "crashed", !.called = "uniform" ]
         ELSE Populated("uniform", r)
    /\ UNCHANGED << syncVars, vt, loader >>

PopulateFaceVarying ==
    /\ pop.pc = "faceVarying"
    /\ \E g \in Garbage :
       \E r \in { _PopulateAttribte_FaceVarying(pop.value, pop.counts,
                                                pop.orientation, g) } :
         \/ Populated("faceVarying", r)
         \/ /\ r.fault
            /\ pop' = [ pop EXCEPT !.pc = "crashed", !.called = "faceVarying" ]
    /\ UNCHANGED << syncVars, vt, loader >>

PopulateConstant ==
    /\ pop.pc = "constant"
    /\ Populated("constant", _PopulateAttribte_Constant(pop.value))
    /\ UNCHANGED << syncVars, vt, loader >>

PopulateReturn ==
    /\ pop.pc = "done"
    /\ pop' = NoPopulate
    /\ UNCHANGED << syncVars, vt, loader >>

InitPopulate == InitWith({ FALSE }, { FALSE })

NextPopulate ==
    \/ PopulateCall
    \/ _PopulateAttribute
    \/ PopulateVertex
    \/ PopulateUniform
    \/ PopulateFaceVarying
    \/ PopulateConstant
    \/ PopulateReturn

SpecPopulate == InitPopulate /\ [][NextPopulate]_vars

\* the source array covers every corner of the faces
CoversCorners == Len(pop.value.vals) >= CornerStart(pop.counts, Len(pop.counts))

\* C26: the uniform populator, given one value per face of a mesh whose
\* faces have 3 or more corners, writes one cell per fan triangle, the sum
\* of (k_i - 2) in all, and the cells of face i, in face order, all hold
\* the converted value i.
C26_UniformPerTriangle ==
    (/\ pop.pc = "done"
     /\ pop.called = "uniform"
     /\ Len(pop.value.vals) = Len(pop.counts)
     /\ \A i \in DOMAIN pop.counts : pop.counts[i] >= 3)
      => /\ Len(pop.data) = SeqSum([ i \in DOMAIN pop.counts |-> pop.counts[i] - 2 ])
         /\ \A i \in DOMAIN pop.counts :
            \A t \in (TrianglesBefore(pop.counts, i - 1) + 1)
                       .. TrianglesBefore(pop.counts, i) :
                pop.data[t] = to_cycles(pop.value.vals[i])

\* a quad and a triangle: two cells of value 1, then one of value 2
C26_Witness ==
    /\ pop.pc = "done"
    /\ pop.called = "uniform"
    /\ pop.counts = << 4, 3 >>
    /\ pop.data = << to_cycles(1), to_cycles(1), to_cycles(2) >>

\* C27: a uniform array longer than the list of face-vertex counts is not
\* populated: nothing is written and the call returns after the oversized
\* diagnostic; an array no longer than it is never called oversized.
C27_OversizedOnlyIfLonger ==
    (pop.pc = "done" /\ pop.interpolation = "uniform")
      => IF Len(pop.value.vals) > Len(pop.counts)
         THEN pop.diag = "oversized" /\ pop.called = "none" /\ pop.data = << >>
         ELSE pop.diag # "oversized"

\* three values for two faces
C27_Witness ==
    /\ pop.pc = "done"
    /\ pop.interpolation = "uniform"
    /\ Len(pop.value.vals) = 3
    /\ Len(pop.counts) = 2
    /\ pop.diag = "oversized"

\* C28: the left-handed output of the face-varying populator is, triangle
\* by triangle, the right-handed output with the second and third corner
\* swapped.
C28_LeftHandedSwapsCorners ==
    (/\ pop.pc = "done"
     /\ pop.called = "faceVarying"
     /\ pop.ret
     /\ pop.orientation = "leftHanded"
     /\ CoversCorners)
      => LET right == _PopulateAttribte_FaceVarying(pop.value, pop.counts,
                                                    "rightHanded", 0).data
         IN  /\ Len(pop.data) = Len(right)
             /\ \A t \in 0 .. (Len(right) \div 3) - 1 :
                    /\ pop.data[3 * t + 1] = right[3 * t + 1]
                    /\ pop.data[3 * t + 2] = right[3 * t + 3]
                    /\ pop.data[3 * t + 3] = right[3 * t + 2]

\* C29: the face-varying populator, given an array that is not empty,
\* writes three cells per fan triangle, 3 * sum of (k_i - 2) in all; a
\* right-handed fan triangle j of a face whose corners start at c reads
\* (c, c + j, c + j + 1); every index read is within the corners
\* [c, c + k - 1] of its face; a face of fewer than 3 corners gives nothing.
C29_FaceVaryingWithinFace ==
    (pop.pc = "done" /\ pop.called = "faceVarying" /\ pop.ret)
      => /\ Len(pop.reads) = TrianglesBefore(pop.counts, Len(pop.counts))
         /\ Len(pop.data) = 3 * Len(pop.reads)
         /\ \A t \in DOMAIN pop.reads :
              LET i == pop.reads[t].face
                  c == CornerStart(pop.counts, i - 1)
                  k == pop.counts[i]
                  j == t - TrianglesBefore(pop.counts, i - 1)
              IN  /\ k >= 3
                  /\ j \in 1 .. (k - 2)
                  /\ \A n \in 1 .. 3 :
                         pop.reads[t].v[n] \in c .. (c + k - 1)
                  /\ pop.orientation = "rightHanded"
                       => pop.reads[t].v = << c, c + j, c + j + 1 >>

\* a face of two corners, then a left-handed quad: two triangles, six cells
C29_Witness ==
    /\ pop.pc = "done"
    /\ pop.called = "faceVarying"
    /\ pop.orientation = "leftHanded"
    /\ pop.counts = << 2, 4 >>
    /\ Len(pop.data) = 6

\* C30: the constant populator returns false and writes nothing for an
\* array whose length is not 1, and writes the one converted element of an
\* array of length 1.
C30_ConstantNeedsOneElement ==
    (pop.pc = "done" /\ pop.interpolation = "constant"
        /\ IsHoldingSupported(pop.value))
      => /\ pop.called = "constant"
         /\ IF Len(pop.value.vals) # 1
            THEN ~pop.ret /\ pop.data = << >> /\ pop.diag = "incompatible size"
            ELSE pop.ret /\ pop.data = << to_cycles(pop.value.vals[1]) >>

\* an empty array is refused
C30_Witness ==
    /\ pop.pc = "done"
    /\ pop.called = "constant"
    /\ pop.value.vals = << >>
    /\ ~pop.ret
    /\ pop.diag = "incompatible size"

(***************************************************************************)
(* SpecPrimvars: one primitive whose primvars are texture coordinates,     *)
(* colors and normals whose refinement succeeds or fails, and arrays that  *)
(* the populators reject.                                                  *)
(***************************************************************************)
PrimvarSets ==
    { << >>,
      << Primvar("st", "textureCoordinate", "vertex", FALSE),
         Primvar("displayColor", "color", "vertex", TRUE) >>,
      << Primvar("Cd", "color", "faceVarying", FALSE),
         Primvar("st", "textureCoordinate", "vertex", TRUE) >>,
      << Primvar("normals", "normal", "vertex", FALSE),
         Primvar("st", "textureCoordinate", "faceVarying", TRUE),
         Primvar("displayColor", "color", "vertex", TRUE) >>,
      << PrimvarOf("displayColor", "color", "constant", << 8, 9 >>) >>,
      << PrimvarOf("st", "textureCoordinate", "vertex", << >>) >>,
      << PrimvarOf("Cd", "color", "uniform", << 1, 2, 3 >>) >>,
      << Primvar("displayColor", "color", "uniform", FALSE) >> }

PrimvarScene ==
    [ prims |-> { 1 },
      masks |-> SUBSET { "DirtyTopology", "DirtyPrimvar", "DirtyNormals",
                         "DirtyTransform", "DirtyPrimID" },
      computed |-> { NoExtComputation },
      topologies |-> { TriangleTopology, QuadTriTopology },
      refineLevels |-> { 0 },
      primvars |-> PrimvarSets,
      points |-> { PointsA },
      transforms |-> { << Sample(0, 1) >>, << Sample(0, 2) >> },
      primIds |-> { 0, 1 },
      materials |-> { "" },
      instancers |-> { << >> },
      needGenerated |-> { FALSE },
      doubleSided |-> { FALSE },
      pointSamples |-> { << >> },
      visible |-> { TRUE } ]

InitPrimvars == InitWith({ FALSE }, { FALSE })
NextPrimvars == NextOf(PrimvarScene)
SpecPrimvars == InitPrimvars /\ [][NextPrimvars]_vars

\* the attributes the ingest of primvar pv adds to the renderer mesh
AttributesOf(pv) ==
    IF pv.name = "normals" \/ pv.role = "normal" THEN { "N", "Ng" }
    ELSE { pv.name }

\* the populator called for pv on a mesh of these face-vertex counts writes
\* nothing: none matches, or the one that matches refuses the array
PopulatorRejects(pv, counts, orientation) ==
    LET value == [ type |-> "vec3f", vals |-> pv.vals ]
    IN  CASE pv.interp = "constant" -> ~_PopulateAttribte_Constant(value).ret
          [] pv.interp = "uniform" ->
                 \/ Oversized(value, counts)
                 \/ ~_PopulateAttribte_Uniform(value, counts).ret
          [] pv.interp = "vertex" -> ~_PopulateAttribte_Vertex(value).ret
          [] pv.interp = "faceVarying" ->
                 ~_PopulateAttribte_FaceVarying(value, counts, orientation, 0).ret
          [] OTHER -> TRUE

\* primvar k of the descriptors read by the call of p was dirty in it
IngestedDirty(p, k) ==
    IsPrimvarDirty(dirty[p], loc'[p].read.descs[k].name)

C25_RejectedLeavesNoAttribute ==
    [][ \A p \in Prims :
          (BodyStep(p) /\ loc'[p].newMesh)
            => \A k \in DOMAIN loc'[p].read.descs :
                 LET pv == loc'[p].read.descs[k]
                 IN  (/\ IngestedDirty(p, k)
                      /\ pv.ok
                      /\ pv.role \in { "textureCoordinate", "color" }
                      /\ PopulatorRejects(pv, RefinedCounts(self'[p].m_refiner),
                                          self'[p].m_topology.orientation))
                       => pv.name \notin mesh'[p].attrs ]_vars

\* C31: the per-vertex populator copies only an array that has one element
\* per vertex of the mesh, and never writes more cells than the mesh has
\* vertices: it does not write past the attribute's buffer.
C31_VertexWithinBuffer ==
    (pop.called = "vertex" /\ pop.pc \in { "done", "crashed" })
        => /\ pop.pc = "done"
           /\ Len(pop.data) <= pop.numVerts
           /\ pop.ret => Len(pop.value.vals) = pop.numVerts

\* C39: the uniform populator writes max(k - 2, 0) cells for a face of k
\* vertices, whatever k is: a face of fewer than 3 vertices adds no cell,
\* and the loop over the cells of a face always ends.
C39_UniformDegenerateFaces ==
    (pop.called = "uniform" /\ pop.pc \in { "done", "crashed" })
        => /\ pop.pc = "done"
           /\ Len(pop.data)
                = SeqSum([ i \in 1 .. Len(pop.value.vals) |->
                             Max(pop.counts[i] - 2, 0) ])

(***************************************************************************)
(* SpecFaces: meshes of one quad, of a quad and a triangle and of one      *)
(* left-handed quad, rebuilt for a new topology or for computed points,    *)
(* with or without a new material binding.                                 *)
(***************************************************************************)
FaceScene ==
    [ prims |-> { 1 },
      masks |-> SUBSET { "DirtyTopology", "DirtyPoints", "DirtyVisibility",
                         "DirtyMaterialId" },
      computed |-> { NoExtComputation, ComputedPoints },
      topologies |-> { QuadTopology, QuadTriTopology,
                       [ QuadTopology EXCEPT !.orientation = "leftHanded" ] },
      refineLevels |-> { 0 },
      primvars |-> { << >> },
      points |-> { PointsA, PointsB },
      transforms |-> { << >> },
      primIds |-> { 0 },
      materials |-> { "" },
      instancers |-> { << >> },
      needGenerated |-> { FALSE },
      doubleSided |-> { FALSE },
      pointSamples |-> { << >> },
      visible |-> BOOLEAN ]

InitFaces == InitWith({ FALSE }, { FALSE })
NextFaces == NextOf(FaceScene)
SpecFaces == InitFaces /\ [][NextFaces]_vars

\* C32: after a Sync that rebuilt the mesh of a topology of convex polygons
\* the renderer mesh has the sum of (k - 2) triangles over the faces of k
\* vertices, they are the triples of the refiner's index buffer in its
\* order, every index of a triangle is the place of a vertex whose position
\* is the source position of that index, and the right-handed quad
\* (v0, v1, v2, v3) gives the triangles (v0, v1, v2) and (v0, v2, v3).
C32_TrianglesOfConvexFaces ==
    [][ \A p \in Prims :
          (BodyStep(p) /\ loc'[p].newMesh)
            => LET t == self'[p].m_topology
                   tris == mesh'[p].triangles
                   refined == RefinedIndices(self'[p].m_refiner)
               IN  /\ Len(tris) = TrianglesBefore(t.counts, Len(t.counts))
                   /\ Len(tris) = Len(refined)
                   /\ \A i \in DOMAIN tris :
                        /\ tris[i].v = refined[i]
                        /\ \A c \in 1 .. 3 :
                             /\ tris[i].v[c] + 1 \in DOMAIN mesh'[p].verts
                             /\ mesh'[p].verts[tris[i].v[c] + 1]
                                  = loc'[p].read.points[tris[i].v[c] + 1]
                   /\ t = QuadTopology
                        => /\ tris[1].v = << t.indices[1], t.indices[2], t.indices[3] >>
                           /\ tris[2].v = << t.indices[1], t.indices[3], t.indices[4] >> ]_vars

\* the quad rebuilt into the triangles (3, 1, 0) and (3, 0, 2)
C32_Witness ==
    \E p \in Prims :
        /\ pc[p] = "return"
        /\ loc[p].newMesh
        /\ self[p].m_topology = QuadTopology
        /\ Len(mesh[p].triangles) = 2
        /\ mesh[p].triangles[1].v = << 3, 1, 0 >>
        /\ mesh[p].triangles[2].v = << 3, 0, 2 >>
        /\ mesh[p].verts = PointsB

(***************************************************************************)
(* HdCyclesVolumeLoader, openvdb_asset.h lines 40-55.  The constructor is  *)
(* given a path and a grid name; what is on disk at the path is either no  *)
(* file, a file that is not a VDB file, or a VDB file holding some grids.  *)
(* The calls into the OpenVDB library end normally or throw one of its     *)
(* exception classes: File::open throws IoError for a file it cannot open  *)
(* or that has no VDB header, File::readGrid throws KeyError for a name    *)
(* the file has no grid of.                                                *)
(***************************************************************************)
GridNames == { "density", "temperature", "flame" }

OnDisk ==
    { [ kind |-> "missing", grids |-> {} ], [ kind |-> "notVdb", grids |-> {} ] }
        \cup { [ kind |-> "vdb", grids |-> g ] : g \in SUBSET GridNames }

\* line 49: file.open()
open(disk) == IF disk.kind \in { "missing", "notVdb" } THEN "IoError" ELSE ""

\* line 50: file.readGrid(grid_name)
readGrid(disk, grid_name) ==
    IF grid_name \in disk.grids THEN [ thrown |-> "", grid |-> grid_name ]
    ELSE [ thrown |-> "KeyError", grid |-> "" ]

\* line 51: catch (const openvdb::IoError& e)
Catches(thrown) == thrown = "IoError"

\* lines 43-46: the base class constructed with an empty grid, the file
\* object made for the path, the try block entered
HdCyclesVolumeLoader(disk, grid_name) ==
    /\ loader.pc = "idle"
    /\ loader' = [ NoLoader EXCEPT !.pc = "try", !.filepath = disk,
                                   !.grid_name = grid_name ]
    /\ UNCHANGED << syncVars, pop, vt >>

\* lines 48-49
LoaderOpen ==
    /\ loader.pc = "try"
    /\ \E thrown \in { open(loader.filepath) } :
         loader' = IF thrown # ""
                   THEN [ loader EXCEPT !.pc = "thrown", !.thrown = thrown ]
                   ELSE [ loader EXCEPT !.pc = "readGrid", !.file = "open" ]
    /\ UNCHANGED << syncVars, pop, vt >>

\* line 50
LoaderReadGrid ==
    /\ loader.pc = "readGrid"
    /\ \E r \in { readGrid(loader.filepath, loader.grid_name) } :
         loader' = IF r.thrown # ""
                   THEN [ loader EXCEPT !.pc = "thrown", !.thrown = r.thrown ]
                   ELSE [ loader EXCEPT !.pc = "constructed", !.grid = r.grid ]
    /\ UNCHANGED << syncVars, pop, vt >>

\* lines 51-53
LoaderCatch ==
    /\ loader.pc = "thrown"
    /\ Catches(loader.thrown)
    /\ loader' = [ loader EXCEPT !.pc = "constructed", !.thrown = "",
                                 !.out = Append(@, "LOAD ERROR") ]
    /\ UNCHANGED << syncVars, pop, vt >>

\* an exception no handler of the constructor matches leaves it
LoaderPropagate ==
    /\ loader.pc = "thrown"
    /\ ~Catches(loader.thrown)
    /\ loader' = [ loader EXCEPT !.pc = "propagated" ]
    /\ UNCHANGED << syncVars, pop, vt >>

\* the loader, or the exception, handed to the caller
LoaderReturn ==
    /\ loader.pc \in { "constructed", "propagated" }
    /\ loader' = NoLoader
    /\ UNCHANGED << syncVars, pop, vt >>

InitLoader == InitWith({ FALSE }, { FALSE })

NextLoader ==
    \/ \E disk \in OnDisk, grid_name \in GridNames :
           HdCyclesVolumeLoader(disk, grid_name)
    \/ LoaderOpen
    \/ LoaderReadGrid
    \/ LoaderCatch
    \/ LoaderPropagate
    \/ LoaderReturn

SpecLoader == InitLoader /\ [][NextLoader]_vars

\* C33: the constructor of the volume loader never lets a failure to load
\* reach its caller: whatever the library throws is caught inside the
\* constructor, and the loader is then constructed with an empty grid.
C33_LoadFailureCaught ==
    /\ loader.pc # "propagated"
    /\ (loader.pc = "constructed" /\ loader.out # << >>) => loader.grid = ""

(***************************************************************************)
(* _HdCyclesGetVtValue<bool>, lines 2272-2299.  A value is the type the    *)
(* VtValue holds and the number held; a_hasChanged is "null" for a null    *)
(* pointer, otherwise what the pointed flag holds before the call.         *)
(***************************************************************************)
VtTypes == { "empty", "bool", "int", "float", "double", "string" }
VtNumbers == { 0, 1, 2 }
HasChangedArgs == { "null", "false", "true" }

\* lines 2276-2298: the value returned and the flag after the call
_HdCyclesGetVtValue(a_value, a_default, a_hasChanged, a_checkWithDefault) ==
    LET mark == ~a_checkWithDefault /\ a_hasChanged # "null"
        held ==
            IF a_value.type \in { "bool", "int" }
            THEN [ val |-> a_value.v # 0,
                   hasChanged |-> IF mark THEN "true" ELSE a_hasChanged ]
            ELSE IF a_value.type = "float"
            THEN [ val |-> IF mark THEN a_value.v = 1 ELSE a_default,
                   hasChanged |-> a_hasChanged ]
            ELSE IF a_value.type = "double"
            THEN [ val |-> a_value.v = 1,
                   hasChanged |-> IF mark THEN "true" ELSE a_hasChanged ]
            ELSE [ val |-> a_default, hasChanged |-> a_hasChanged ]
    IN  IF a_hasChanged # "null" /\ a_checkWithDefault /\ held.val # a_default
        THEN [ held EXCEPT !.hasChanged = "true" ]
        ELSE held

GetVtValueCall ==
    /\ vt.pc = "idle"
    /\ \E type \in VtTypes, v \in VtNumbers, a_default \in BOOLEAN,
          a_hasChanged \in HasChangedArgs, a_checkWithDefault \in BOOLEAN :
         vt' = [ NoVtValue EXCEPT !.pc = "called",
                                  !.a_value = [ type |-> type, v |-> v ],
                                  !.a_default = a_default,
                                  !.a_hasChanged = a_hasChanged,
                                  !.a_checkWithDefault = a_checkWithDefault,
                                  !.hasChanged = a_hasChanged ]
    /\ UNCHANGED << syncVars, pop, loader >>

GetVtValueBody ==
    /\ vt.pc = "called"
    /\ \E r \in { _HdCyclesGetVtValue(vt.a_value, vt.a_default, vt.a_hasChanged,
                                      vt.a_checkWithDefault) } :
         vt' = [ vt EXCEPT !.pc = "returned", !.ret = r.val,
                           !.hasChanged = r.hasChanged ]
    /\ UNCHANGED << syncVars, pop, loader >>

GetVtValueReturn ==
    /\ vt.pc = "returned"
    /\ vt' = NoVtValue
    /\ UNCHANGED << syncVars, pop, loader >>

InitGetVtValue == InitWith({ FALSE }, { FALSE })

NextGetVtValue ==
    \/ GetVtValueCall
    \/ GetVtValueBody
    \/ GetVtValueReturn

SpecGetVtValue == InitGetVtValue /\ [][NextGetVtValue]_vars

\* C40: a call with a float returns the boolean and leaves the changed
\* flag that the call with the equal double, the same default, the same
\* checkWithDefault and the same flag returns and leaves.
C40_FloatAsDouble ==
    (vt.pc = "returned" /\ vt.a_value.type = "float")
        => LET d == _HdCyclesGetVtValue([ vt.a_value EXCEPT !.type = "double" ],
                                        vt.a_default, vt.a_hasChanged,
                                        vt.a_checkWithDefault)
           IN  /\ vt.ret = d.val
               /\ vt.hasChanged = d.hasChanged

\* the renderer objects of primitive p: its prototype and its pool of
\* instance objects
ObjectsOf(p) == { p } \cup InstancePool(p)

C35_ShaderListAppendOnly ==
    [][ \A p \in Prims :
          LET old == self[p].m_usedShaders
              new == self'[p].m_usedShaders
              subsetShaders == Cardinality(self'[p].m_materialMap
                                             \ self[p].m_materialMap)
              material == "DirtyMaterialId" \in dirty[p]
                            /\ RefinedCounts(self'[p].m_refiner) # << >>
          IN  /\ Len(new) >= Len(old)
              /\ SubSeq(new, 1, Len(old)) = old
              /\ BodyStep(p)
                   => /\ Len(new) = Len(old) + subsetShaders
                                      + (IF material THEN 1 ELSE 0)
                      /\ material
                           => new[Len(new)]
                                \in { BoundShader(self'[p].m_cachedMaterialId),
                                      "default_surface", "default_vcol_surface" }
                                      \ { "" }
              /\ ~BodyStep(p) => new = old ]_vars

\* the material matA bound in two Syncs in a row: its shader is in the
\* list twice
C35_Witness ==
    \E p \in Prims :
        /\ pc[p] = "return"
        /\ dirty[p] = { "DirtyMaterialId" }
        /\ self[p].m_topology = TriangleTopology
        /\ self[p].m_cachedMaterialId = "matA"
        /\ self[p].m_usedShaders = << "shaderA", "shaderA" >>

\* C36: a Sync that does not rebuild the mesh, for one with a dirty primvar
\* and neither topology, subdivision tags, display style nor computed
\* points dirty, leaves the attribute set of the renderer mesh as it was; a
\* Sync that rebuilds it leaves exactly the attributes of the primvars that
\* are dirty in that Sync and were refined, so the attribute of a primvar
\* applied before and not dirty now is gone.
C36_AttributesOnlyOnRebuild ==
    [][ \A p \in Prims :
          BodyRan(p)
            => /\ (/\ ~TopologyPulled(p)
                   /\ ~(loc'[p].read.ext.has /\ IsPrimvarDirty(dirty[p], "points")))
                    => /\ ~loc'[p].newMesh
                       /\ mesh'[p].attrs = mesh[p].attrs
               /\ loc'[p].newMesh
                    => /\ \A a \in mesh'[p].attrs :
                            \E k \in DOMAIN loc'[p].read.descs :
                                LET pv == loc'[p].read.descs[k]
                                IN  /\ IngestedDirty(p, k)
                                    /\ pv.ok
                                    /\ a \in AttributesOf(pv)
                                               \cup { pv.name \o ".tangent",
                                                      pv.name \o ".tangent_sign" }
                       /\ \A k \in DOMAIN loc'[p].read.descs :
                            (IngestedDirty(p, k) /\ loc'[p].read.descs[k].ok)
                              => AttributesOf(loc'[p].read.descs[k])
                                   \cap mesh'[p].attrs # {} ]_vars

\* a rebuild for a new topology alone: the delegate still has the texture
\* coordinates st, they are not dirty, and the mesh is left without them
C36_Witness ==
    \E p \in Prims :
        /\ pc[p] = "return"
        /\ dirty[p] = { "DirtyTopology" }
        /\ loc[p].newMesh
        /\ \E k \in DOMAIN loc[p].read.descs :
               loc[p].read.descs[k].name = "st" /\ loc[p].read.descs[k].ok
        /\ mesh[p].attrs = {}

\* C37: the first Sync of a primitive carries the initial dirty mask, so
\* every Sync that populates the mesh, refines a primvar or tests the face
\* count for the material finds a refiner: none dereferences a null refiner.
C37_RefinerBeforeUse ==
    [][ \A p \in Prims :
          BodyRan(p)
            => /\ pc'[p] # "crashed"
               /\ (loc'[p].newMesh \/ "DirtyMaterialId" \in dirty[p])
                    => self'[p].m_refiner.valid ]_vars

\* a rebuild for computed points with a new material binding and no new
\* topology: the mesh is populated from the refiner of an earlier Sync
C37_Witness ==
    \E p \in Prims :
        /\ pc[p] = "return"
        /\ dirty[p] = { "DirtyPoints", "DirtyMaterialId" }
        /\ loc[p].newMesh
        /\ self[p].m_refiner.valid
        /\ Len(mesh[p].triangles) = 3
        /\ Len(self[p].m_usedShaders) >= 2

\* C38: the vertex-color flag is false before the first Sync, a Sync sets it
\* when it rebuilds the mesh and meets a dirty primvar named displayColor
\* among the descriptors of the four interpolation classes it reads, also
\* when the refinement of the colors failed and no attribute was written,
\* and no step clears it.
C38_VertexColorFlag ==
    /\ [](\A p \in Prims :
            ~self[p].m_refiner.valid => ~self[p].m_hasVertexColors)
    /\ [][ \A p \in Prims :
             LET pvs == primvarDescsPerInterpolation(loc'[p].read.descs)
                 met == /\ BodyRan(p)
                        /\ loc'[p].newMesh
                        /\ \E k \in DOMAIN pvs :
                               /\ pvs[k].name = "displayColor"
                               /\ IsPrimvarDirty(dirty[p], pvs[k].name)
             IN  self'[p].m_hasVertexColors
                   = (self[p].m_hasVertexColors \/ met) ]_vars

\* the refinement of a uniform displayColor failed: no color attribute, and
\* the flag is set
C38_Witness ==
    \E p \in Prims :
        /\ pc[p] = "return"
        /\ loc[p].newMesh
        /\ loc[p].read.descs = << Primvar("displayColor", "color", "uniform", FALSE) >>
        /\ "DirtyPrimvar" \in dirty[p]
        /\ "displayColor" \notin mesh[p].attrs
        /\ self[p].m_hasVertexColors
====
